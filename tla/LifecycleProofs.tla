--------------------------- MODULE LifecycleProofs ---------------------------
(***************************************************************************)
(* How repositories and tenants come, pay, move and go, and who reaches    *)
(* them and what is stored of them meanwhile: what Repositories,           *)
(* ImportJob, TenantDeletion, Billing, Credentials and ObjectStorage       *)
(* promise, for any number of organizations, repositories, requests,       *)
(* items, exports, events, keys, objects and crashes.  The modules share   *)
(* no variable; each has its own invariant and its own part here.          *)
(***************************************************************************)
EXTENDS Repositories, ImportJob, TenantDeletion, Billing, Credentials, ObjectStorage, Integers, FiniteSetTheorems, SequenceTheorems, TLAPS

(* Repositories: rows and directories whatever meets what, also when       *)
(* requests act on rows that have changed.                                 *)

\* RowsMade and requests as the code makes them: a row in use names a place, one in
\* Trash the slug it had, and a request remembers a row its operation asks for.
RowsMade ==
  {w \in Row : /\ w.st = "live" => w.org \in Orgs /\ w.slug \in Slugs
               /\ w.st = "trash" => w.orig \in Slugs}

RequestsMade ==
  {x \in Request :
     /\ x.was \in RowsMade
     /\ x.op \in {"transfer", "trash"} => x.id \in Repos /\ x.was.st = "live"
     /\ x.op \in {"restore", "purge"} => x.id \in Repos /\ x.was.st = "trash"
     /\ x.op \in {"spawned", "cloning", "cloned"} => x.org \in Orgs /\ x.slug \in Slugs
     /\ x.op = "cloned" => x.id \in Repos}

Shape ==
  /\ row \in [Repos -> RowsMade] /\ req \in [Requests -> RequestsMade] /\ tenants \subseteq Orgs
  /\ disk \in [Places -> Repos \cup Requests \cup {Orphan, Empty}]

\* The id of a clone that has ended is nobody else's and has no row yet.
Cloned(q, r) == req[q].op = "cloned" /\ req[q].id = r

Ids ==
  \A q \in Requests, r \in Repos : Cloned(q, r) =>
    row[r].st = "none" /\ \A x \in Requests : Cloned(x, r) => x = q

\* Only what has, or had, a row, or is about to get one, has bytes.
Known(r) == row[r].st # "none" \/ \E q \in Requests : Cloned(q, r)

OnDisk == \A p \in Places, r \in Repos : disk[p] = r => Known(r)

RepoInv == Shape /\ Ids /\ OnDisk /\ BytesInOnePlace

-----------------------------------------------------------------------------
(* RowsMade and requests                                                   *)

LEMMA RowShapes ==
  /\ NoRow \in RowsMade /\ [NoRow EXCEPT !.st = "gone"] \in RowsMade
  /\ \A o \in Orgs, s \in Slugs : NewRow(o, s) \in RowsMade /\ NewRow(o, s).st = "live"
  BY DEF NoRow, NewRow, RowsMade, Row

LEMMA RowChanges ==
  ASSUME NEW w \in RowsMade
  PROVE  /\ [w EXCEPT !.st = "gone"] \in RowsMade /\ [w EXCEPT !.st = "gone"].st = "gone"
         /\ [w EXCEPT !.from = None] \in RowsMade /\ [w EXCEPT !.from = None].st = w.st
         /\ \A o \in Orgs : [w EXCEPT !.org = o] \in RowsMade /\ [w EXCEPT !.org = o].st = w.st
         /\ \A b \in BOOLEAN : [w EXCEPT !.archived = b] \in RowsMade /\ [w EXCEPT !.archived = b].st = w.st
  BY DEF RowsMade, Row

LEMMA TrashShapes ==
  ASSUME Shape, NEW r \in Repos, NEW was \in RowsMade
  PROVE  /\ was.st = "live" => Trashed(r, was) \in RowsMade /\ Trashed(r, was).st = "trash"
         /\ was.st = "trash" /\ was.from \in Orgs => Restored(r, was) \in RowsMade /\ Restored(r, was).st = "live"
  BY DEF Shape, RowsMade, Row, Trashed, Restored

LEMMA RequestShapes ==
  /\ IdleRequest \in RequestsMade /\ IdleRequest.op = "idle"
  /\ \A o \in Orgs, s \in Slugs :
       LET x == [IdleRequest EXCEPT !.op = "spawned", !.org = o, !.slug = s]
       IN  x \in RequestsMade /\ x.op = "spawned"
  BY RowShapes, ZenonT(60) DEF IdleRequest, RequestsMade, Request, RowsMade, NoRow, Row

-----------------------------------------------------------------------------
(* Bytes *)

\* Steps that give no place the bytes of a repository it did not have.
LEMMA BytesKept ==
  ASSUME RepoInv,
         \A p \in Places : disk'[p] = disk[p] \/ disk'[p] \notin Repos,
         \A r \in Repos : Known(r) => Known(r)'
  PROVE  OnDisk' /\ BytesInOnePlace'
  BY DEF RepoInv, OnDisk, BytesInOnePlace

\* A directory gets the bytes of a repository nobody has seen.
LEMMA BytesPlaced ==
  ASSUME RepoInv, NEW at \in Places, NEW r \in Repos, ~Known(r), disk' = [disk EXCEPT ![at] = r],
         \A x \in Repos : Known(x) \/ x = r => Known(x)'
  PROVE  OnDisk' /\ BytesInOnePlace'
<1>1. \A p \in Places : disk'[p] = IF p = at THEN r ELSE disk[p]
  BY DEF RepoInv, Shape
<1>2. \A p \in Places : disk[p] # r
  BY DEF RepoInv, OnDisk
<1> QED BY <1>1, <1>2 DEF RepoInv, OnDisk, BytesInOnePlace

\* A directory is renamed to where there is none.
LEMMA BytesMoved ==
  ASSUME RepoInv, NEW was \in RowsMade, was.st = "live", NEW to \in Orgs, MayTransfer(was, to),
         \/ disk' = MovedTo(was, to)
         \/ disk' = Cut(MovedTo(was, to)),
         \A r \in Repos : Known(r) => Known(r)'
  PROVE  /\ disk' \in [Places -> Repos \cup Requests \cup {Orphan, Empty}]
         /\ OnDisk' /\ BytesInOnePlace'
<1> DEFINE src == <<was.org, was.slug>>
           dst == <<to, was.slug>>
<1>1. src \in Places /\ dst \in Places /\ src # dst /\ disk[dst] = Empty
  BY DEF RowsMade, Row, Places, MayTransfer
<1>2. Empty \notin Repos
  BY RepositoriesAssumption
<1>3. \A p \in Places : MovedTo(was, to)[p] = IF p = src THEN Empty ELSE IF p = dst THEN disk[src] ELSE disk[p]
  BY <1>1 DEF MovedTo, RepoInv, Shape
<1>4. \A p \in Places : disk'[p] \in Repos => disk'[p] = MovedTo(was, to)[p]
  BY RepositoriesAssumption DEF Cut
<1>5. MovedTo(was, to) \in [Places -> Repos \cup Requests \cup {Orphan, Empty}]
  BY <1>1 DEF MovedTo, RepoInv, Shape
<1>6. disk' \in [Places -> Repos \cup Requests \cup {Orphan, Empty}]
  BY <1>5 DEF Cut
<1> HIDE DEF src, dst
<1>7. OnDisk'
  BY <1>1, <1>2, <1>3, <1>4 DEF RepoInv, OnDisk
<1>8. BytesInOnePlace'
  BY <1>1, <1>2, <1>3, <1>4 DEF RepoInv, BytesInOnePlace
<1> QED BY <1>6, <1>7, <1>8

\* Steps after which no clone has ended that had not, and no row is used that
\* was not.
LEMMA IdsKept ==
  ASSUME Ids, \A q \in Requests, r \in Repos : Cloned(q, r)' => Cloned(q, r),
         \A r \in Repos : row[r].st = "none" /\ (\E q \in Requests : Cloned(q, r)') => row'[r].st = "none"
  PROVE  Ids'
  BY DEF Ids

\* What an operation of a request that is over leaves of the clones.
LEMMA DoneKeeps ==
  ASSUME RepoInv, NEW q \in Requests, Done(q)
  PROVE  /\ req' \in [Requests -> RequestsMade]
         /\ \A x \in Requests, r \in Repos : Cloned(x, r)' <=> x # q /\ Cloned(x, r)
  BY RequestShapes DEF RepoInv, Shape, Done, Cloned

-----------------------------------------------------------------------------
LEMMA RepoInitOK == RepoInit => RepoInv
<1> SUFFICES ASSUME RepoInit PROVE RepoInv
  OBVIOUS
<1>1. Shape
  BY RowShapes, RequestShapes DEF RepoInit, Shape
<1>2. \A q \in Requests, r \in Repos : ~Cloned(q, r)
  BY RequestShapes DEF RepoInit, Cloned
<1>3. \A p \in Places : disk[p] \notin Repos
  BY RepositoriesAssumption DEF RepoInit
<1> QED BY <1>1, <1>2, <1>3 DEF RepoInv, Ids, OnDisk, BytesInOnePlace

\* Steps of a request that is over and had no clone, as far as rows go: the row
\* of r changes, and was in use.
LEMMA RowWritten ==
  ASSUME RepoInv, NEW q \in Requests, req[q].op # "cloned", Done(q),
         NEW r \in Repos, Exists(r), NEW w \in RowsMade, w.st # "none", row' = [row EXCEPT ![r] = w]
  PROVE  /\ row' \in [Repos -> RowsMade] /\ req' \in [Requests -> RequestsMade] /\ Ids'
         /\ \A x \in Repos : Known(x) => Known(x)'
<1>1. /\ req' \in [Requests -> RequestsMade]
      /\ \A x \in Requests, y \in Repos : Cloned(x, y)' <=> Cloned(x, y)
  BY DoneKeeps DEF Cloned
<1>2. row' \in [Repos -> RowsMade] /\ \A x \in Repos : row'[x].st = "none" <=> row[x].st = "none"
  BY DEF RepoInv, Shape, Exists
<1>3. Ids'
  BY <1>1, <1>2, IdsKept DEF RepoInv
<1> QED BY <1>1, <1>2, <1>3 DEF Known

\* The same of one that changes no row.
LEMMA RowUntouched ==
  ASSUME RepoInv, NEW q \in Requests, req[q].op # "cloned", Done(q), row' = row
  PROVE  /\ row' \in [Repos -> RowsMade] /\ req' \in [Requests -> RequestsMade] /\ Ids'
         /\ \A x \in Repos : Known(x) => Known(x)'
<1>1. /\ req' \in [Requests -> RequestsMade]
      /\ \A x \in Requests, y \in Repos : Cloned(x, y)' <=> Cloned(x, y)
  BY DoneKeeps DEF Cloned
<1>2. Ids'
  BY <1>1, IdsKept DEF RepoInv
<1> QED BY <1>1, <1>2 DEF Known, RepoInv, Shape

LEMMA LifecycleOK ==
  ASSUME RepoInv, NEW q \in Requests,
         \/ \E to \in Orgs : TransferRepository(q, to)
         \/ TrashRepository(q) \/ RestoreRepository(q) \/ PurgeRepository(q)
  PROVE  RepoInv'
<1> DEFINE r == req[q].id
           was == req[q].was
<1>q. was \in RowsMade /\ req[q].op # "cloned" /\ req[q].op \in {"transfer", "trash", "restore", "purge"} /\ r \in Repos
      /\ (req[q].op \in {"transfer", "trash"} => was.st = "live")
      /\ (req[q].op \in {"restore", "purge"} => was.st = "trash")
  BY DEF RepoInv, Shape, RequestsMade, TransferRepository, TrashRepository, RestoreRepository, PurgeRepository
<1>s. /\ Shape /\ row[r] \in RowsMade /\ Done(q) /\ tenants' = tenants
  BY <1>q DEF RepoInv, Shape, TransferRepository, TrashRepository, RestoreRepository, PurgeRepository
<1> HIDE DEF r, was
<1>1. ASSUME NEW to \in Orgs, TransferRepository(q, to) PROVE RepoInv'
  <2>1. /\ row' = row \/ (Exists(r) /\ row' = [row EXCEPT ![r] = [row[r] EXCEPT !.org = to]])
        /\ disk' = disk \/ (MayTransfer(was, to) /\ disk' = MovedTo(was, to))
        /\ was.st = "live"
    BY <1>1, <1>q, <1>s DEF TransferRepository, r, was, Shape
  <2>2. /\ row' \in [Repos -> RowsMade] /\ req' \in [Requests -> RequestsMade] /\ Ids'
        /\ \A x \in Repos : Known(x) => Known(x)'
    <3>1. [row[r] EXCEPT !.org = to] \in RowsMade /\ [row[r] EXCEPT !.org = to].st = row[r].st
      BY <1>s, RowChanges
    <3>2. Exists(r) => row[r].st # "none"
      BY DEF Exists
    <3> QED BY <1>q, <1>s, <2>1, <3>1, <3>2, RowWritten, RowUntouched DEF r
  <2>3. /\ disk' \in [Places -> Repos \cup Requests \cup {Orphan, Empty}]
        /\ OnDisk' /\ BytesInOnePlace'
    <3>1. CASE disk' = disk
      BY <2>2, <3>1, <1>s, BytesKept DEF Shape
    <3>2. CASE MayTransfer(was, to) /\ disk' = MovedTo(was, to)
      BY <1>q, <2>1, <2>2, <3>2, BytesMoved
    <3> QED BY <2>1, <3>1, <3>2
  <2> QED BY <1>s, <2>2, <2>3 DEF RepoInv, Shape
<1>2. ASSUME TrashRepository(q) PROVE RepoInv'
  <2>1. /\ disk' = disk /\ was.st = "live"
        /\ row' = row \/ (Exists(r) /\ row' = [row EXCEPT ![r] = Trashed(r, was)])
    BY <1>2, <1>q DEF TrashRepository, r, was, Exists
  <2>2. Trashed(r, was) \in RowsMade /\ Trashed(r, was).st # "none"
    BY <1>q, <1>s, <2>1, TrashShapes
  <2>3. /\ row' \in [Repos -> RowsMade] /\ req' \in [Requests -> RequestsMade] /\ Ids'
        /\ \A x \in Repos : Known(x) => Known(x)'
    BY <1>q, <1>s, <2>1, <2>2, RowWritten, RowUntouched DEF r
  <2>4. OnDisk' /\ BytesInOnePlace'
    BY <2>1, <2>3, BytesKept
  <2> QED BY <1>s, <2>1, <2>3, <2>4 DEF RepoInv, Shape
<1>3. ASSUME RestoreRepository(q) PROVE RepoInv'
  <2>1. /\ disk' = disk /\ was.st = "trash"
        /\ row' = row \/ (Exists(r) /\ MayTouchTrash(was) /\ row' = [row EXCEPT ![r] = Restored(r, was)])
    BY <1>3, <1>q DEF RestoreRepository, r, was, Exists
  <2>2. MayTouchTrash(was) => Restored(r, was) \in RowsMade /\ Restored(r, was).st # "none"
    BY <1>q, <1>s, <2>1, TrashShapes DEF MayTouchTrash, Shape
  <2>3. /\ row' \in [Repos -> RowsMade] /\ req' \in [Requests -> RequestsMade] /\ Ids'
        /\ \A x \in Repos : Known(x) => Known(x)'
    BY <1>q, <1>s, <2>1, <2>2, RowWritten, RowUntouched DEF r
  <2>4. OnDisk' /\ BytesInOnePlace'
    BY <2>1, <2>3, BytesKept
  <2> QED BY <1>s, <2>1, <2>3, <2>4 DEF RepoInv, Shape
<1>4. ASSUME PurgeRepository(q) PROVE RepoInv'
  <2> DEFINE at == <<was.from, was.orig>>
             gone == [NoRow EXCEPT !.st = "gone"]
  <2>1. /\ disk' = disk \/ disk' = Removed(at)
        /\ row' = row \/ (Exists(r) /\ row' = [row EXCEPT ![r] = gone])
    BY <1>4, <1>q DEF PurgeRepository, Purged, Purgeable, r, was, Exists
  <2>2. gone \in RowsMade /\ gone.st # "none"
    BY RowShapes, RowChanges
  <2> HIDE DEF at, gone
  <2>3. /\ row' \in [Repos -> RowsMade] /\ req' \in [Requests -> RequestsMade] /\ Ids'
        /\ \A x \in Repos : Known(x) => Known(x)'
    BY <1>q, <1>s, <2>1, <2>2, RowWritten, RowUntouched DEF r
  <2>4. /\ disk' \in [Places -> Repos \cup Requests \cup {Orphan, Empty}]
        /\ \A p \in Places : disk'[p] = disk[p] \/ disk'[p] \notin Repos
    BY <1>s, <2>1, RepositoriesAssumption DEF Shape, Removed
  <2>5. OnDisk' /\ BytesInOnePlace'
    BY <2>3, <2>4, BytesKept
  <2> QED BY <1>s, <2>3, <2>4, <2>5 DEF RepoInv, Shape
<1> QED BY <1>1, <1>2, <1>3, <1>4

LEMMA ImportOK ==
  ASSUME RepoInv, NEW q \in Requests,
         CloneStarts(q) \/ CloneFails(q) \/ Record(q) \/ \E r \in Repos : CloneEnds(q, r)
  PROVE  RepoInv'
<1> DEFINE p == <<req[q].org, req[q].slug>>
<1>s. /\ Shape /\ Ids /\ p \in Places /\ tenants' = tenants /\ req[q] \in RequestsMade
      /\ Requests \cap Repos = {} /\ Empty \notin Repos
  BY RepositoriesAssumption DEF RepoInv, Shape, RequestsMade, Places, CloneStarts, CloneFails, Record, CloneEnds
<1> HIDE DEF p
<1>r. /\ Removed(p) \in [Places -> Repos \cup Requests \cup {Orphan, Empty}]
      /\ \A x \in Places : Removed(p)[x] = disk[x] \/ Removed(p)[x] \notin Repos
  BY <1>s DEF Shape, Removed
<1>1. ASSUME req[q].op # "cloned", Done(q), row' = row, disk' = Removed(p) PROVE RepoInv'
  <2>1. /\ row' \in [Repos -> RowsMade] /\ req' \in [Requests -> RequestsMade] /\ Ids'
        /\ \A x \in Repos : Known(x) => Known(x)'
    BY <1>1, RowUntouched
  <2>2. OnDisk' /\ BytesInOnePlace'
    BY <1>1, <1>r, <2>1, BytesKept
  <2> QED BY <1>1, <1>s, <1>r, <2>1, <2>2 DEF RepoInv, Shape
<1>2. ASSUME CloneStarts(q) PROVE RepoInv'
  <2>1. CASE /\ disk' = [disk EXCEPT ![p] = q] /\ req' = [req EXCEPT ![q].op = "cloning"]
    <3>1. req[q].op = "spawned" /\ row' = row
      BY <1>2 DEF CloneStarts
    <3>2. /\ [req[q] EXCEPT !.op = "cloning"] \in RequestsMade /\ [req[q] EXCEPT !.op = "cloning"].op = "cloning"
      BY <1>s, <3>1 DEF RequestsMade, Request
    <3>3. /\ req' \in [Requests -> RequestsMade]
          /\ \A x \in Requests, y \in Repos : Cloned(x, y)' <=> Cloned(x, y)
      BY <1>s, <2>1, <3>1, <3>2 DEF Shape, Cloned
    <3>4. Ids' /\ \A x \in Repos : Known(x) => Known(x)'
      BY <1>s, <3>1, <3>3, IdsKept DEF Known
    <3>5. /\ disk' \in [Places -> Repos \cup Requests \cup {Orphan, Empty}]
          /\ \A x \in Places : disk'[x] = disk[x] \/ disk'[x] \notin Repos
      BY <1>s, <2>1 DEF Shape
    <3>6. OnDisk' /\ BytesInOnePlace'
      BY <3>4, <3>5, BytesKept
    <3> QED BY <1>s, <3>1, <3>3, <3>4, <3>5, <3>6 DEF RepoInv, Shape
  <2>2. CASE disk' = Removed(p) /\ Done(q)
    BY <1>1, <1>2, <2>2 DEF CloneStarts
  <2> QED BY <1>2, <2>1, <2>2 DEF CloneStarts, p
<1>3. ASSUME CloneFails(q) PROVE RepoInv'
  BY <1>1, <1>3 DEF CloneFails, AfterFailure, p
<1>4. ASSUME NEW r \in Repos, CloneEnds(q, r) PROVE RepoInv'
  <2> DEFINE x1 == [req[q] EXCEPT !.op = "cloned", !.id = r]
  <2>1. /\ req[q].op = "cloning" /\ row' = row /\ Fresh(r)
        /\ disk' = [disk EXCEPT ![p] = r] /\ req' = [req EXCEPT ![q] = x1]
    BY <1>4, <1>s DEF CloneEnds, p, Shape
  <2>2. x1 \in RequestsMade /\ x1.op = "cloned" /\ x1.id = r
    BY <1>s, <2>1 DEF RequestsMade, Request
  <2> HIDE DEF x1
  <2>3. /\ req' \in [Requests -> RequestsMade] /\ Cloned(q, r)'
        /\ \A x \in Requests \ {q}, y \in Repos : Cloned(x, y)' <=> Cloned(x, y)
        /\ \A y \in Repos : Cloned(q, y)' <=> y = r
        /\ \A y \in Repos : ~Cloned(q, y)
    BY <1>s, <2>1, <2>2 DEF Shape, Cloned
  <2>4. row[r].st = "none" /\ \A x \in Requests : ~Cloned(x, r)
    BY <2>1 DEF Fresh, Cloned
  <2>5. Ids'
    BY <1>s, <2>1, <2>3, <2>4 DEF Ids
  <2>6. ~Known(r) /\ \A x \in Repos : Known(x) \/ x = r => Known(x)'
    BY <2>1, <2>3, <2>4 DEF Known
  <2>7. OnDisk' /\ BytesInOnePlace'
    BY <1>s, <2>1, <2>6, BytesPlaced
  <2>8. disk' \in [Places -> Repos \cup Requests \cup {Orphan, Empty}]
    BY <1>s, <2>1 DEF Shape
  <2> QED BY <1>s, <2>1, <2>3, <2>5, <2>7, <2>8 DEF RepoInv, Shape
<1>5. ASSUME Record(q) PROVE RepoInv'
  <2> DEFINE r == req[q].id
  <2>1. Done(q) /\ Cloned(q, r) /\ r \in Repos /\ row[r].st = "none"
    BY <1>s, <1>5 DEF Record, Cloned, RequestsMade, Ids
  <2>2. PICK w \in RowsMade : w.st # "none" /\ row' = [row EXCEPT ![r] = w]
    <3>1. /\ [row[r] EXCEPT !.st = "gone"] \in RowsMade /\ [row[r] EXCEPT !.st = "gone"].st # "none"
      BY <1>s, <2>1, RowChanges DEF Shape
    <3>2. /\ req[q].org \in Orgs /\ req[q].slug \in Slugs
      BY <1>s, <1>5 DEF Record, RequestsMade
    <3>3. NewRow(req[q].org, req[q].slug) \in RowsMade /\ NewRow(req[q].org, req[q].slug).st # "none"
      BY <3>2, RowShapes
    <3> QED BY <1>s, <1>5, <3>1, <3>3 DEF Record, Shape
  <2>3. disk' = disk \/ disk' = Removed(p)
    BY <1>5 DEF Record, AfterFailure, p
  <2> HIDE DEF r
  <2>4. /\ req' \in [Requests -> RequestsMade]
        /\ \A x \in Requests, y \in Repos : Cloned(x, y)' <=> x # q /\ Cloned(x, y)
    BY <2>1, DoneKeeps
  <2>5. row' \in [Repos -> RowsMade] /\ row'[r].st # "none" /\ \A x \in Repos \ {r} : row'[x] = row[x]
    BY <1>s, <2>1, <2>2 DEF Shape
  <2>6. Ids'
    BY <1>s, <2>1, <2>4, <2>5 DEF Ids
  <2>7. \A x \in Repos : Known(x) => Known(x)'
    BY <1>s, <2>1, <2>4, <2>5 DEF Known, Ids, Cloned
  <2>8. /\ disk' \in [Places -> Repos \cup Requests \cup {Orphan, Empty}]
        /\ \A x \in Places : disk'[x] = disk[x] \/ disk'[x] \notin Repos
    BY <1>s, <1>r, <2>3 DEF Shape
  <2>9. OnDisk' /\ BytesInOnePlace'
    BY <2>7, <2>8, BytesKept
  <2> QED BY <1>s, <2>4, <2>5, <2>6, <2>8, <2>9 DEF RepoInv, Shape
<1> QED BY <1>2, <1>3, <1>4, <1>5

-----------------------------------------------------------------------------
LEMMA BeginOK ==
  ASSUME RepoInv, NEW q \in Requests,
         \/ \E r \in Repos, op \in {"transfer", "trash", "restore", "purge"} : Begin(q, r, op)
         \/ \E o \in Orgs, s \in Slugs : BeginImport(q, o, s)
  PROVE  RepoInv'
<1>1. PICK x \in RequestsMade : req[q].op = "idle" /\ x.op # "cloned" /\ req' = [req EXCEPT ![q] = x]
  <2>1. ASSUME NEW r \in Repos, NEW op \in {"transfer", "trash", "restore", "purge"}, Begin(q, r, op)
        PROVE  [op |-> op, id |-> r, was |-> row[r], org |-> None, slug |-> None] \in RequestsMade
    BY <2>1 DEF Begin, RepoInv, Shape, RequestsMade, Request, RowsMade
  <2>2. ASSUME NEW o \in Orgs, NEW s \in Slugs, BeginImport(q, o, s)
        PROVE  /\ [IdleRequest EXCEPT !.op = "spawned", !.org = o, !.slug = s] \in RequestsMade
               /\ [IdleRequest EXCEPT !.op = "spawned", !.org = o, !.slug = s].op = "spawned"
    BY RequestShapes
  <2>3. CASE \E r \in Repos, op \in {"transfer", "trash", "restore", "purge"} : Begin(q, r, op)
    BY <2>1, <2>3 DEF Begin
  <2>4. CASE \E o \in Orgs, s \in Slugs : BeginImport(q, o, s)
    BY <2>2, <2>4 DEF BeginImport
  <2> QED BY <2>3, <2>4
<1>2. row' = row /\ disk' = disk /\ tenants' = tenants
  BY DEF Begin, BeginImport
<1>3. /\ req' \in [Requests -> RequestsMade]
      /\ \A y \in Requests, r \in Repos : Cloned(y, r)' <=> Cloned(y, r)
  BY <1>1 DEF RepoInv, Shape, Cloned
<1>4. Ids' /\ \A r \in Repos : Known(r) => Known(r)'
  BY <1>2, <1>3, IdsKept DEF RepoInv, Known
<1>5. OnDisk' /\ BytesInOnePlace'
  BY <1>2, <1>4, BytesKept
<1> QED BY <1>2, <1>3, <1>4, <1>5 DEF RepoInv, Shape

\* Steps that leave requests and directories, and no row used that was not.
LEMMA RowsOnlyOK ==
  ASSUME RepoInv, UNCHANGED <<req, disk>>, row' \in [Repos -> RowsMade], tenants' \subseteq Orgs,
         \A r \in Repos : row'[r].st = "none" <=> row[r].st = "none"
  PROVE  RepoInv'
<1>1. \A q \in Requests, r \in Repos : Cloned(q, r)' <=> Cloned(q, r)
  BY DEF Cloned
<1>2. Ids' /\ \A r \in Repos : Known(r) => Known(r)'
  BY <1>1, IdsKept DEF RepoInv, Known
<1>3. OnDisk' /\ BytesInOnePlace'
  BY <1>2, BytesKept
<1> QED BY <1>2, <1>3 DEF RepoInv, Shape

LEMMA CreateOK ==
  ASSUME RepoInv, NEW o \in Orgs, NEW s \in Slugs, NEW r \in Repos, Create(o, s, r)
  PROVE  RepoInv'
<1>1. /\ disk' = [disk EXCEPT ![<<o, s>>] = r] /\ row' = [row EXCEPT ![r] = NewRow(o, s)]
      /\ Fresh(r) /\ req' = req /\ tenants' = tenants /\ <<o, s>> \in Places
  BY DEF Create, Places
<1>2. NewRow(o, s) \in RowsMade /\ NewRow(o, s).st # "none"
  BY RowShapes
<1>3. \A q \in Requests, x \in Repos : Cloned(q, x)' <=> x # r /\ Cloned(q, x)
  BY <1>1 DEF Fresh, Cloned
<1>4. row' \in [Repos -> RowsMade] /\ row'[r].st # "none" /\ \A x \in Repos \ {r} : row'[x] = row[x]
  BY <1>1, <1>2 DEF RepoInv, Shape
<1>5. Ids'
  BY <1>3, <1>4 DEF RepoInv, Ids
<1>6. ~Known(r) /\ \A x \in Repos : Known(x) \/ x = r => Known(x)'
  BY <1>1, <1>3, <1>4 DEF Fresh, Known, Cloned
<1>7. OnDisk' /\ BytesInOnePlace'
  BY <1>1, <1>6, BytesPlaced
<1>8. disk' \in [Places -> Repos \cup Requests \cup {Orphan, Empty}]
  BY <1>1 DEF RepoInv, Shape
<1> QED BY <1>1, <1>4, <1>5, <1>7, <1>8 DEF RepoInv, Shape

LEMMA CrashOK ==
  ASSUME RepoInv, Crash
  PROVE  RepoInv'
<1> DEFINE lost == {req[q].id : q \in {x \in Requests : req[x].op = "cloned"}}
<1>1. /\ req' = [q \in Requests |-> IdleRequest] /\ tenants' = tenants
  BY DEF Crash
<1>2. \A q \in Requests, r \in Repos : ~Cloned(q, r)'
  BY <1>1, RequestShapes DEF Cloned
<1>3. req' \in [Requests -> RequestsMade]
  BY <1>1, RequestShapes
<1>4. Ids'
  BY <1>2 DEF Ids
<1>5. /\ row' \in [Repos -> RowsMade]
      /\ \A r \in Repos : r \in lost \/ row[r].st # "none" => row'[r].st # "none"
  <2>1. CASE row' = [r \in Repos |-> IF r \in lost THEN [row[r] EXCEPT !.st = "gone"] ELSE row[r]]
    <3>1. \A r \in Repos : [row[r] EXCEPT !.st = "gone"] \in RowsMade /\ [row[r] EXCEPT !.st = "gone"].st = "gone"
      BY RowChanges DEF RepoInv, Shape
    <3> HIDE DEF lost
    <3> QED BY <2>1, <3>1 DEF RepoInv, Shape
  <2>2. CASE row' = row /\ lost = {}
    BY <2>2 DEF RepoInv, Shape
  <2> QED BY <2>1, <2>2 DEF Crash
<1>6. \A r \in Repos : Known(r) => r \in lost \/ row[r].st # "none"
  BY DEF Known, Cloned
<1>7. \A r \in Repos : Known(r) => Known(r)'
  BY <1>5, <1>6 DEF Known
<1>8. Repos \cap {Orphan, Empty} = {} /\ Repos \cap Requests = {}
  BY RepositoriesAssumption
<1> HIDE DEF lost
<1>9. \/ disk' = Cut(disk)
      \/ \E q \in Requests, to \in Orgs :
           req[q].op = "transfer" /\ MayTransfer(req[q].was, to) /\ disk' = Cut(MovedTo(req[q].was, to))
      \/ \E p : disk' = Cut(Removed(p))
      \/ \E p : disk' = [Cut(disk) EXCEPT ![p] = Orphan]
  BY DEF Crash
<1>10. /\ disk' \in [Places -> Repos \cup Requests \cup {Orphan, Empty}]
       /\ OnDisk' /\ BytesInOnePlace'
  <2>1. CASE \E q \in Requests, to \in Orgs :
               req[q].op = "transfer" /\ MayTransfer(req[q].was, to) /\ disk' = Cut(MovedTo(req[q].was, to))
    <3>1. \A q \in Requests : req[q].op = "transfer" => req[q].was \in RowsMade /\ req[q].was.st = "live"
      BY DEF RepoInv, Shape, RequestsMade
    <3> QED BY <1>7, <2>1, <3>1, BytesMoved
  <2>2. CASE \/ disk' = Cut(disk)
             \/ \E p : disk' = Cut(Removed(p))
             \/ \E p : disk' = [Cut(disk) EXCEPT ![p] = Orphan]
    <3>1. /\ disk' \in [Places -> Repos \cup Requests \cup {Orphan, Empty}]
          /\ \A x \in Places : disk'[x] = disk[x] \/ disk'[x] \notin Repos
      BY <1>8, <2>2 DEF RepoInv, Shape, Cut, Removed
    <3> QED BY <1>7, <3>1, BytesKept
  <2> QED BY <1>9, <2>1, <2>2
<1> QED BY <1>1, <1>3, <1>4, <1>5, <1>10 DEF RepoInv, Shape

LEMMA RepoStepOK == RepoInv /\ [RepoNext]_repoVars => RepoInv'
<1> SUFFICES ASSUME RepoInv, [RepoNext]_repoVars PROVE RepoInv'
  OBVIOUS
<1>1. CASE \E q \in Requests : RequestStep(q)
  BY <1>1, LifecycleOK, ImportOK DEF RequestStep
<1>2. CASE \/ \E q \in Requests, r \in Repos : \E op \in {"transfer", "trash", "restore", "purge"} : Begin(q, r, op)
           \/ \E q \in Requests, o \in Orgs, s \in Slugs : BeginImport(q, o, s)
  BY <1>2, BeginOK
<1>3. CASE \E o \in Orgs, s \in Slugs, r \in Repos : Create(o, s, r)
  BY <1>3, CreateOK
<1>4. ASSUME NEW r \in Repos, ArchiveRepository(r) \/ UnarchiveRepository(r) PROVE RepoInv'
  <2>1. PICK b \in BOOLEAN : row' = [row EXCEPT ![r] = [row[r] EXCEPT !.archived = b]]
    BY <1>4 DEF ArchiveRepository, UnarchiveRepository, RepoInv, Shape
  <2>2. [row[r] EXCEPT !.archived = b] \in RowsMade /\ [row[r] EXCEPT !.archived = b].st = row[r].st
    BY RowChanges DEF RepoInv, Shape
  <2>3. row' \in [Repos -> RowsMade] /\ \A x \in Repos : row'[x].st = row[x].st
    BY <2>1, <2>2 DEF RepoInv, Shape
  <2> QED BY <1>4, <2>3, RowsOnlyOK DEF ArchiveRepository, UnarchiveRepository, RepoInv, Shape
<1>5. ASSUME NEW o \in Orgs, DeleteTenant(o) PROVE RepoInv'
  <2> DEFINE gone == [NoRow EXCEPT !.st = "gone"]
  <2>1. gone \in RowsMade /\ gone.st = "gone"
    BY RowShapes, RowChanges
  <2>2. \A r \in Repos : [row[r] EXCEPT !.from = None] \in RowsMade /\ [row[r] EXCEPT !.from = None].st = row[r].st
    BY RowChanges DEF RepoInv, Shape
  <2>3. \A r \in Repos : /\ row'[r] \in {gone, [row[r] EXCEPT !.from = None], row[r]}
                         /\ row'[r] = gone => Exists(r) \/ row'[r] = row[r]
    BY <1>5 DEF DeleteTenant
  <2> HIDE DEF gone
  <2>4. row' \in [Repos -> RowsMade] /\ \A r \in Repos : row'[r].st = "none" <=> row[r].st = "none"
    BY <1>5, <2>1, <2>2, <2>3 DEF DeleteTenant, RepoInv, Shape, Exists
  <2> QED BY <1>5, <2>4, RowsOnlyOK DEF DeleteTenant, RepoInv, Shape
<1>6. CASE Crash
  BY <1>6, CrashOK
<1>7. CASE UNCHANGED repoVars
  BY <1>7, RowsOnlyOK DEF repoVars, RepoInv, Shape
<1> QED BY <1>1, <1>2, <1>3, <1>4, <1>5, <1>6, <1>7, RepositoriesAssumption DEF RepoNext

-----------------------------------------------------------------------------
\* RowsMade and requests are as the code makes them, and whatever has bytes on disk
\* has a row, had one, or is a clone that has ended and nobody shares.
THEOREM PlacesInvariance == RepoSpec => []RepoInv
<1> QED BY RepoInitOK, RepoStepOK, PTL DEF RepoSpec

\* The bytes of a repository are never in two directories, whatever requests,
\* crashes and deletions of tenants meet (repository-lifecycle.mjs renames).
THEOREM OnePlaceHolds == RepoSpec => []BytesInOnePlace
<1>1. RepoInv => BytesInOnePlace
  BY DEF RepoInv
<1> QED BY <1>1, PlacesInvariance, PTL

-----------------------------------------------------------------------------
(* Rows and directories in calm behaviours: who owns which directory.      *)

PlaceOf(q) == <<req[q].org, req[q].slug>>
Clones(q) == req[q].op \in {"cloning", "cloned"}
AtHome(r, p) == Exists(r) /\ HomeOf(r) = p

BytesAtHome == \A r \in Repos, p \in Places : AtHome(r, p) => disk[p] = r

\* The clone of a request is where the request says.
Claimed == \A q \in Requests, p \in Places : Clones(q) /\ PlaceOf(q) = p =>
             disk[p] = IF req[q].op = "cloning" THEN q ELSE req[q].id

Accounted(p) ==
  \/ disk[p] = Empty \/ p[1] \notin tenants
  \/ \E r \in Repos : AtHome(r, p)
  \/ \E q \in Requests : Clones(q) /\ PlaceOf(q) = p

TrashApart == \A r \in Repos : row[r].st = "trash" => row[r].org = Trash

RepoPlaced == BytesAtHome /\ Claimed /\ (\A p \in Places : Accounted(p)) /\ TrashApart

CalmInv == RepoInv /\ (calm => RepoPlaced)

LEMMA HomesArePlaces ==
  ASSUME RepoInv
  PROVE  /\ \A r \in Repos : Exists(r) /\ HomeOf(r)[1] # None => HomeOf(r) \in Places
         /\ \A r \in Repos, p \in Places : AtHome(r, p) => HomeOf(r)[1] # None
         /\ \A q \in Requests : Clones(q) => PlaceOf(q) \in Places
<1>1. \A r \in Repos : Exists(r) /\ HomeOf(r)[1] # None => HomeOf(r) \in Places
  <2> SUFFICES ASSUME NEW r \in Repos, Exists(r), HomeOf(r)[1] # None PROVE HomeOf(r) \in Places
    OBVIOUS
  <2>1. row[r] \in RowsMade
    BY DEF RepoInv, Shape
  <2>2. CASE row[r].st = "trash"
    <3>1. HomeOf(r) = <<row[r].from, row[r].orig>>
      BY <2>2 DEF HomeOf
    <3>2. row[r].from \in Orgs /\ row[r].orig \in Slugs
      BY <2>1, <2>2, <3>1 DEF RowsMade, Row
    <3> QED BY <3>1, <3>2 DEF Places
  <2>3. CASE row[r].st = "live"
    BY <2>1, <2>3 DEF HomeOf, RowsMade, Places
  <2> QED BY <2>2, <2>3 DEF Exists
<1>2. \A r \in Repos, p \in Places : AtHome(r, p) => HomeOf(r)[1] # None
  BY RepositoriesAssumption DEF AtHome, Places
<1>3. \A q \in Requests : Clones(q) => PlaceOf(q) \in Places
  BY DEF Clones, PlaceOf, Places, RepoInv, Shape, RequestsMade
<1> QED BY <1>1, <1>2, <1>3

\* What a calm step leaves: elsewhere than at the places of C nothing changes, and
\* what is at home or cloned at a place of C, before or after, is accounted for.
LEMMA PlacesFollow ==
  ASSUME RepoPlaced, tenants' \subseteq tenants, TrashApart', NEW C \in SUBSET Places,
         \A p \in Places \ C : disk'[p] = disk[p],
         \A p \in Places \ C, r \in Repos : AtHome(r, p)' => AtHome(r, p),
         \A p \in Places \ C, r \in Repos : AtHome(r, p) => AtHome(r, p)' \/ p[1] \notin tenants',
         \A p \in Places \ C, q \in Requests : Clones(q)' /\ PlaceOf(q)' = p =>
           Clones(q) /\ PlaceOf(q) = p /\ req'[q] = req[q],
         \A p \in Places \ C, q \in Requests : Clones(q) /\ PlaceOf(q) = p => Clones(q)' /\ PlaceOf(q)' = p,
         \A p \in C, r \in Repos : AtHome(r, p)' => disk'[p] = r,
         \A p \in C, q \in Requests : Clones(q)' /\ PlaceOf(q)' = p =>
           disk'[p] = IF req'[q].op = "cloning" THEN q ELSE req'[q].id,
         \A p \in C : Accounted(p)'
  PROVE  RepoPlaced'
<1>1. BytesAtHome'
  <2> SUFFICES ASSUME NEW r \in Repos, NEW p \in Places, AtHome(r, p)' PROVE disk'[p] = r
    BY DEF BytesAtHome
  <2> QED BY DEF RepoPlaced, BytesAtHome
<1>2. Claimed'
  <2> SUFFICES ASSUME NEW q \in Requests, NEW p \in Places, Clones(q)', PlaceOf(q)' = p
               PROVE  disk'[p] = IF req'[q].op = "cloning" THEN q ELSE req'[q].id
    BY DEF Claimed
  <2> QED BY DEF RepoPlaced, Claimed
<1>3. \A p \in Places \ C : Accounted(p)'
  BY DEF RepoPlaced, Accounted
<1> QED BY <1>1, <1>2, <1>3 DEF RepoPlaced

RequestsStay == \A q \in Requests : Clones(q) \/ Clones(q)' => req'[q] = req[q]

LEMMA RowKept ==
  ASSUME NEW r \in Repos, row'[r] = row[r]
  PROVE  \A p : AtHome(r, p)' <=> AtHome(r, p)
  BY DEF AtHome, Exists, HomeOf

LEMMA ClaimKept ==
  ASSUME NEW q \in Requests, req'[q] = req[q]
  PROVE  \A p : Clones(q)' /\ PlaceOf(q)' = p <=> Clones(q) /\ PlaceOf(q) = p
  BY DEF Clones, PlaceOf

LEMMA ClaimsKept ==
  ASSUME RequestsStay
  PROVE  /\ \A q \in Requests : \A p : Clones(q)' /\ PlaceOf(q)' = p <=> Clones(q) /\ PlaceOf(q) = p
         /\ \A q \in Requests : Clones(q)' => req'[q] = req[q]
<1> SUFFICES ASSUME NEW q \in Requests
             PROVE  /\ \A p : Clones(q)' /\ PlaceOf(q)' = p <=> Clones(q) /\ PlaceOf(q) = p
                    /\ Clones(q)' => req'[q] = req[q]
  OBVIOUS
<1>1. CASE req'[q] = req[q]
  BY <1>1, ClaimKept
<1>2. CASE ~ Clones(q) /\ ~ Clones(q)'
  BY <1>2
<1> QED BY <1>1, <1>2 DEF RequestsStay

LEMMA DoneStays ==
  ASSUME RepoInv, NEW q \in Requests, ~ Clones(q), Done(q)
  PROVE  RequestsStay
<1>1. req' = [req EXCEPT ![q] = IdleRequest] /\ req \in [Requests -> RequestsMade]
  BY DEF Done, RepoInv, Shape
<1>2. ~ Clones(q)'
  BY <1>1, RequestShapes DEF Clones
<1> QED BY <1>1, <1>2 DEF RequestsStay

\* Steps that write no directory and end, or move, no clone.
LEMMA StayPut ==
  ASSUME RepoPlaced, RequestsStay, disk' = disk, tenants' \subseteq tenants, TrashApart',
         \A p \in Places, r \in Repos : AtHome(r, p)' => AtHome(r, p),
         \A p \in Places, r \in Repos : AtHome(r, p) => AtHome(r, p)' \/ p[1] \notin tenants'
  PROVE  RepoPlaced'
<1>1. PICK C \in SUBSET Places : C = {}
  OBVIOUS
<1> QED BY <1>1, ClaimsKept, PlacesFollow

LEMMA TransferCalm ==
  ASSUME RepoInv, RepoPlaced, calm', NEW q \in Requests, NEW to \in Orgs, TransferRepository(q, to)
  PROVE  RepoPlaced'
<1>1. PICK r : r = req[q].id
  OBVIOUS
<1>2. PICK was : was = req[q].was
  OBVIOUS
<1>3. req[q].op = "transfer" /\ Done(q) /\ r \in Repos /\ was \in RowsMade /\ was.st = "live" /\ tenants' = tenants
  BY <1>1, <1>2 DEF TransferRepository, RepoInv, Shape, RequestsMade
<1>4. RequestsStay
  BY <1>3, DoneStays DEF Clones
<1>5. CASE ~ MayTransfer(was, to)
  <2>1. row' = row /\ disk' = disk
    BY <1>2, <1>5 DEF TransferRepository
  <2>2. TrashApart'
    BY <2>1 DEF RepoPlaced, TrashApart
  <2> QED BY <1>3, <1>4, <2>1, <2>2, RowKept, StayPut
<1>6. CASE MayTransfer(was, to)
  <2>1. row[r] = was /\ disk' = MovedTo(was, to) /\ row' = IF Exists(r) THEN [row EXCEPT ![r].org = to] ELSE row
    BY <1>1, <1>2, <1>6 DEF TransferRepository, Same
  <2>2. PICK src \in Places : src = <<was.org, was.slug>>
    BY <1>3 DEF RowsMade, Row, Places
  <2>3. PICK dst \in Places : dst = <<to, was.slug>>
    BY <1>3 DEF RowsMade, Row, Places
  <2>4. src # dst /\ disk[dst] = Empty
    BY <1>6, <2>2, <2>3 DEF MayTransfer
  <2>5. \A p \in Places : disk'[p] = IF p = src THEN Empty ELSE IF p = dst THEN disk[src] ELSE disk[p]
    BY <2>1, <2>2, <2>3, <2>4 DEF MovedTo, RepoInv, Shape
  <2>6. /\ row'[r] = [was EXCEPT !.org = to] /\ row'[r].st = "live" /\ row'[r].org = to /\ row'[r].slug = was.slug
        /\ \A x \in Repos \ {r} : row'[x] = row[x]
    BY <1>3, <2>1 DEF Exists, RepoInv, Shape, RowsMade, Row
  <2>7. \A p : (AtHome(r, p) <=> p = src) /\ (AtHome(r, p)' <=> p = dst)
    BY <1>3, <2>1, <2>2, <2>3, <2>6 DEF AtHome, Exists, HomeOf
  <2>8. \A x \in Repos \ {r} : \A p : AtHome(x, p)' <=> AtHome(x, p)
    BY <2>6, RowKept
  <2>9. disk[src] = r
    BY <1>3, <2>7 DEF RepoPlaced, BytesAtHome
  <2>10. \A x \in Repos \ {r} : ~ AtHome(x, src) /\ ~ AtHome(x, dst)
    BY <2>4, <2>9, RepositoriesAssumption DEF RepoPlaced, BytesAtHome
  <2>11. \A x \in Requests : Clones(x) => PlaceOf(x) # src /\ PlaceOf(x) # dst
    <3> SUFFICES ASSUME NEW x \in Requests, Clones(x), PlaceOf(x) \in {src, dst} PROVE FALSE
      OBVIOUS
    <3>1. disk[PlaceOf(x)] = IF req[x].op = "cloning" THEN x ELSE req[x].id
      BY DEF RepoPlaced, Claimed
    <3>2. disk[PlaceOf(x)] \in {r, Empty}
      BY <2>4, <2>9
    <3>3. req[x].op = "cloned" => req[x].id \in Repos /\ row[req[x].id].st = "none"
      BY DEF RepoInv, Shape, RequestsMade, Ids, Cloned
    <3> QED BY <1>3, <2>1, <3>1, <3>2, <3>3, RepositoriesAssumption DEF Clones
  <2>12. TrashApart'
    BY <2>6 DEF RepoPlaced, TrashApart
  <2>13. \A p \in {src, dst} : Accounted(p)'
    BY <1>3, <2>4, <2>5, <2>7 DEF Accounted
  <2>14. PICK C \in SUBSET Places : C = {src, dst}
    OBVIOUS
  <2>15. \A p \in C, x \in Requests : ~ (Clones(x)' /\ PlaceOf(x)' = p)
    BY <1>4, <2>11, <2>14, ClaimsKept
  <2>16. \A p \in C, x \in Repos : AtHome(x, p)' => disk'[p] = x
    BY <2>4, <2>5, <2>7, <2>8, <2>9, <2>10, <2>14
  <2>17. \A p \in Places \ C, x \in Repos : AtHome(x, p)' <=> AtHome(x, p)
    BY <2>7, <2>8, <2>14
  <2>18. \A p \in Places \ C : disk'[p] = disk[p]
    BY <2>5, <2>14
  <2> QED BY <1>3, <1>4, <2>12, <2>13, <2>14, <2>15, <2>16, <2>17, <2>18, ClaimsKept, PlacesFollow
<1> QED BY <1>5, <1>6

LEMMA TrashCalm ==
  ASSUME RepoInv, RepoPlaced, calm', NEW q \in Requests, TrashRepository(q)
  PROVE  RepoPlaced'
<1>1. PICK r : r = req[q].id
  OBVIOUS
<1>2. PICK was : was = req[q].was
  OBVIOUS
<1>3. /\ req[q].op = "trash" /\ Done(q) /\ r \in Repos /\ was \in RowsMade /\ was.st = "live"
      /\ tenants' = tenants /\ disk' = disk
  BY <1>1, <1>2 DEF TrashRepository, RepoInv, Shape, RequestsMade
<1>4. RequestsStay
  BY <1>3, DoneStays DEF Clones
<1>5. CASE row' = row
  <2>1. TrashApart'
    BY <1>5 DEF RepoPlaced, TrashApart
  <2> QED BY <1>3, <1>4, <1>5, <2>1, RowKept, StayPut
<1>6. CASE row' # row
  <2>1. row[r] = was /\ row' = [row EXCEPT ![r] = Trashed(r, was)]
    BY <1>1, <1>2, <1>6 DEF TrashRepository, Same
  <2>2. /\ row'[r].st = "trash" /\ row'[r].org = Trash /\ row'[r].from = was.org /\ row'[r].orig = was.slug
        /\ \A x \in Repos \ {r} : row'[x] = row[x]
    BY <1>3, <2>1 DEF Trashed, RepoInv, Shape, RowsMade, Row
  <2>3. \A p : AtHome(r, p)' <=> AtHome(r, p)
    BY <1>3, <2>1, <2>2 DEF AtHome, Exists, HomeOf
  <2>4. \A x \in Repos : \A p : AtHome(x, p)' <=> AtHome(x, p)
    BY <2>2, <2>3, RowKept
  <2>5. TrashApart'
    BY <2>2 DEF RepoPlaced, TrashApart
  <2> QED BY <1>3, <1>4, <2>4, <2>5, StayPut
<1> QED BY <1>5, <1>6

LEMMA RestoreCalm ==
  ASSUME RepoInv, RepoPlaced, calm', NEW q \in Requests, RestoreRepository(q)
  PROVE  RepoPlaced'
<1>1. PICK r : r = req[q].id
  OBVIOUS
<1>2. PICK was : was = req[q].was
  OBVIOUS
<1>3. /\ req[q].op = "restore" /\ Done(q) /\ r \in Repos /\ was \in RowsMade /\ was.st = "trash"
      /\ tenants' = tenants /\ disk' = disk
  BY <1>1, <1>2 DEF RestoreRepository, RepoInv, Shape, RequestsMade
<1>4. RequestsStay
  BY <1>3, DoneStays DEF Clones
<1>5. CASE row' = row
  <2>1. TrashApart'
    BY <1>5 DEF RepoPlaced, TrashApart
  <2> QED BY <1>3, <1>4, <1>5, <2>1, RowKept, StayPut
<1>6. CASE row' # row
  <2>1. row[r] = was /\ row' = [row EXCEPT ![r] = Restored(r, was)]
    BY <1>1, <1>2, <1>6 DEF RestoreRepository, Same
  <2>2. /\ row'[r].st = "live" /\ row'[r].org = was.from /\ row'[r].slug = was.orig
        /\ \A x \in Repos \ {r} : row'[x] = row[x]
    BY <1>3, <2>1 DEF Restored, RepoInv, Shape, RowsMade, Row
  <2>3. \A p : AtHome(r, p)' <=> AtHome(r, p)
    BY <1>3, <2>1, <2>2 DEF AtHome, Exists, HomeOf
  <2>4. \A x \in Repos : \A p : AtHome(x, p)' <=> AtHome(x, p)
    BY <2>2, <2>3, RowKept
  <2>5. TrashApart'
    BY <2>2 DEF RepoPlaced, TrashApart
  <2> QED BY <1>3, <1>4, <2>4, <2>5, StayPut
<1> QED BY <1>5, <1>6

\* A repository that is at home somewhere keeps clones away, and the other way round.
LEMMA OneOwner ==
  ASSUME RepoInv, RepoPlaced, NEW p \in Places
  PROVE  /\ \A r, x \in Repos : AtHome(r, p) /\ AtHome(x, p) => r = x
         /\ \A r \in Repos, q \in Requests : ~ (AtHome(r, p) /\ Clones(q) /\ PlaceOf(q) = p)
         /\ \A q, x \in Requests : Clones(q) /\ PlaceOf(q) = p /\ Clones(x) /\ PlaceOf(x) = p => q = x
         /\ disk[p] = Empty => /\ \A r \in Repos : ~ AtHome(r, p)
                               /\ \A q \in Requests : ~ (Clones(q) /\ PlaceOf(q) = p)
<1>1. \A q \in Requests : req[q].op = "cloned" => Cloned(q, req[q].id) /\ req[q].id \in Repos /\ row[req[q].id].st = "none"
  BY DEF RepoInv, Shape, RequestsMade, Ids, Cloned
<1>2. \A r \in Repos : AtHome(r, p) => disk[p] = r /\ row[r].st # "none"
  BY DEF RepoPlaced, BytesAtHome, AtHome, Exists
<1>3. \A q \in Requests : Clones(q) /\ PlaceOf(q) = p =>
        \/ req[q].op = "cloning" /\ disk[p] = q
        \/ req[q].op = "cloned" /\ disk[p] = req[q].id
  BY DEF RepoPlaced, Claimed, Clones
<1>4. \A r, x \in Repos : AtHome(r, p) /\ AtHome(x, p) => r = x
  BY <1>2
<1>5. \A r \in Repos, q \in Requests : ~ (AtHome(r, p) /\ Clones(q) /\ PlaceOf(q) = p)
  BY <1>1, <1>2, <1>3, RepositoriesAssumption
<1>6. \A q, x \in Requests : Clones(q) /\ PlaceOf(q) = p /\ Clones(x) /\ PlaceOf(x) = p => q = x
  <2> SUFFICES ASSUME NEW q \in Requests, NEW x \in Requests, Clones(q), PlaceOf(q) = p, Clones(x), PlaceOf(x) = p
               PROVE  q = x
    OBVIOUS
  <2>1. CASE req[q].op = "cloning" /\ disk[p] = q
    BY <1>1, <1>3, <2>1, RepositoriesAssumption
  <2>2. CASE req[q].op = "cloned" /\ disk[p] = req[q].id
    <3>1. req[x].op = "cloned" /\ req[x].id = req[q].id
      BY <1>1, <1>3, <2>2, RepositoriesAssumption
    <3> QED BY <1>1, <2>2, <3>1 DEF RepoInv, Ids
  <2> QED BY <1>3, <2>1, <2>2
<1>7. ASSUME disk[p] = Empty
      PROVE  /\ \A r \in Repos : ~ AtHome(r, p)
             /\ \A q \in Requests : ~ (Clones(q) /\ PlaceOf(q) = p)
  BY <1>1, <1>2, <1>3, <1>7, RepositoriesAssumption
<1> QED BY <1>4, <1>5, <1>6, <1>7

LEMMA PurgeCalm ==
  ASSUME RepoInv, RepoPlaced, calm', NEW q \in Requests, PurgeRepository(q)
  PROVE  RepoPlaced'
<1>1. PICK r : r = req[q].id
  OBVIOUS
<1>2. PICK was : was = req[q].was
  OBVIOUS
<1>3. /\ req[q].op = "purge" /\ Done(q) /\ r \in Repos /\ was \in RowsMade /\ was.st = "trash" /\ tenants' = tenants
  BY <1>1, <1>2 DEF PurgeRepository, RepoInv, Shape, RequestsMade
<1>4. RequestsStay
  BY <1>3, DoneStays DEF Clones
<1>5. CASE row' = row /\ disk' = disk
  <2>1. TrashApart'
    BY <1>5 DEF RepoPlaced, TrashApart
  <2> QED BY <1>3, <1>4, <1>5, <2>1, RowKept, StayPut
<1>6. CASE MayTouchTrash(was) /\ Purgeable(r)
  <2>1. /\ row[r] = was /\ row' = [row EXCEPT ![r] = [NoRow EXCEPT !.st = "gone"]]
        /\ disk' = Removed(<<was.from, was.orig>>)
    BY <1>1, <1>2, <1>6 DEF PurgeRepository, Same, Purged
  <2>2. PICK at \in Places : at = <<was.from, was.orig>>
    BY <1>3, <1>6 DEF RowsMade, Row, Places, MayTouchTrash, RepoInv, Shape
  <2>3. \A p \in Places : disk'[p] = IF p = at THEN Empty ELSE disk[p]
    BY <2>1, <2>2 DEF Removed, RepoInv, Shape
  <2>4. row'[r].st = "gone" /\ \A x \in Repos \ {r} : row'[x] = row[x]
    <3>1. PICK g : g = [NoRow EXCEPT !.st = "gone"]
      OBVIOUS
    <3>2. g.st = "gone"
      BY <3>1, RowShapes, RowChanges
    <3>3. row' = [row EXCEPT ![r] = g]
      BY <2>1, <3>1
    <3> QED BY <1>3, <3>2, <3>3 DEF RepoInv, Shape
  <2>5. \A p : (AtHome(r, p) <=> p = at) /\ ~ AtHome(r, p)'
    BY <1>3, <2>1, <2>2, <2>4 DEF AtHome, Exists, HomeOf
  <2>6. \A x \in Repos \ {r} : \A p : AtHome(x, p)' <=> AtHome(x, p)
    BY <2>4, RowKept
  <2>7. /\ \A x \in Repos : ~ AtHome(x, at)'
        /\ \A x \in Requests : ~ (Clones(x)' /\ PlaceOf(x)' = at)
    <3>1. AtHome(r, at)
      BY <2>5
    <3>2. \A x \in Repos \ {r} : ~ AtHome(x, at)
      BY <1>3, <3>1, OneOwner
    <3>3. \A x \in Requests : ~ (Clones(x) /\ PlaceOf(x) = at)
      BY <1>3, <3>1, OneOwner
    <3>4. \A x \in Requests : ~ (Clones(x)' /\ PlaceOf(x)' = at)
      BY <1>4, <3>3, ClaimsKept
    <3> QED BY <2>5, <2>6, <3>2, <3>4
  <2>8. TrashApart'
    BY <2>4 DEF RepoPlaced, TrashApart
  <2>9. Accounted(at)'
    BY <2>3 DEF Accounted
  <2>10. PICK C \in SUBSET Places : C = {at}
    OBVIOUS
  <2>11. \A p \in Places \ C : disk'[p] = disk[p]
    BY <2>3, <2>10
  <2>12. \A p \in Places \ C, x \in Repos : AtHome(x, p)' <=> AtHome(x, p)
    BY <2>5, <2>6, <2>10
  <2> QED BY <1>3, <1>4, <2>7, <2>8, <2>9, <2>10, <2>11, <2>12, ClaimsKept, PlacesFollow
<1> QED BY <1>1, <1>2, <1>5, <1>6 DEF PurgeRepository, Purged

-----------------------------------------------------------------------------
\* A request and the place of its clone change, and with them one repository at most.
LEMMA CloneChanges ==
  ASSUME RepoInv, RepoPlaced, NEW q \in Requests, NEW at \in Places, NEW d, NEW x, PlaceOf(q) = at,
         disk' = [disk EXCEPT ![at] = d], req' = [req EXCEPT ![q] = x], tenants' = tenants, TrashApart',
         \A p \in Places \ {at}, r \in Repos : AtHome(r, p)' <=> AtHome(r, p),
         \A r \in Repos : AtHome(r, at)' => d = r,
         Clones(q)' => PlaceOf(q)' = at /\ d = IF x.op = "cloning" THEN q ELSE x.id,
         \A y \in Requests \ {q} : ~ (Clones(y) /\ PlaceOf(y) = at),
         Accounted(at)'
  PROVE  RepoPlaced'
<1>1. /\ \A p \in Places : disk'[p] = IF p = at THEN d ELSE disk[p]
      /\ req'[q] = x /\ \A y \in Requests \ {q} : req'[y] = req[y]
  BY DEF RepoInv, Shape
<1>2. \A y \in Requests \ {q} : \A p : Clones(y)' /\ PlaceOf(y)' = p <=> Clones(y) /\ PlaceOf(y) = p
  BY <1>1, ClaimKept
<1>3. PICK C \in SUBSET Places : C = {at}
  OBVIOUS
<1>4. \A p \in Places \ C : disk'[p] = disk[p] /\ \A r \in Repos : AtHome(r, p)' <=> AtHome(r, p)
  BY <1>1, <1>3
<1>5. \A p \in Places \ C, y \in Requests : Clones(y)' /\ PlaceOf(y)' = p =>
        Clones(y) /\ PlaceOf(y) = p /\ req'[y] = req[y]
  BY <1>1, <1>2, <1>3
<1>6. \A p \in Places \ C, y \in Requests : Clones(y) /\ PlaceOf(y) = p => Clones(y)' /\ PlaceOf(y)' = p
  BY <1>2, <1>3
<1>7. \A p \in C, y \in Requests : Clones(y)' /\ PlaceOf(y)' = p =>
        disk'[p] = IF req'[y].op = "cloning" THEN y ELSE req'[y].id
  BY <1>1, <1>2, <1>3
<1>8. \A p \in C, r \in Repos : AtHome(r, p)' => disk'[p] = r
  BY <1>1, <1>3
<1>9. \A p \in C : Accounted(p)'
  BY <1>3
<1> QED BY <1>4, <1>5, <1>6, <1>7, <1>8, <1>9, PlacesFollow

LEMMA CloneStartsCalm ==
  ASSUME RepoInv, RepoPlaced, calm', NEW q \in Requests, CloneStarts(q)
  PROVE  RepoPlaced'
<1>1. PICK at \in Places : at = PlaceOf(q)
  BY DEF CloneStarts, PlaceOf, Places, RepoInv, Shape, RequestsMade
<1>2. /\ disk[at] = Empty /\ disk' = [disk EXCEPT ![at] = q] /\ row' = row /\ tenants' = tenants
      /\ req' = [req EXCEPT ![q].op = "cloning"]
  BY <1>1 DEF CloneStarts, PlaceOf
<1>3. PICK x : x = [req[q] EXCEPT !.op = "cloning"]
  OBVIOUS
<1>4. req' = [req EXCEPT ![q] = x] /\ x.op = "cloning" /\ x.org = req[q].org /\ x.slug = req[q].slug
  BY <1>2, <1>3 DEF RepoInv, Shape, RequestsMade, Request
<1>5. Clones(q)' /\ PlaceOf(q)' = at
  BY <1>1, <1>4 DEF Clones, PlaceOf, RepoInv, Shape
<1>6. /\ \A r \in Repos : ~ AtHome(r, at)
      /\ \A y \in Requests : ~ (Clones(y) /\ PlaceOf(y) = at)
  BY <1>2, OneOwner
<1>7. \A r \in Repos : \A p : AtHome(r, p)' <=> AtHome(r, p)
  BY <1>2, RowKept
<1>8. TrashApart'
  BY <1>2 DEF RepoPlaced, TrashApart
<1>9. Accounted(at)'
  BY <1>5 DEF Accounted
<1> QED BY <1>1, <1>2, <1>4, <1>5, <1>6, <1>7, <1>8, <1>9, CloneChanges

LEMMA CloneFailsCalm ==
  ASSUME RepoInv, RepoPlaced, calm', NEW q \in Requests, CloneFails(q)
  PROVE  RepoPlaced'
<1>1. PICK at \in Places : at = PlaceOf(q)
  BY DEF CloneFails, PlaceOf, Places, RepoInv, Shape, RequestsMade
<1>2. /\ req[q].op = "cloning" /\ disk' = [disk EXCEPT ![at] = Empty] /\ row' = row /\ tenants' = tenants
      /\ req' = [req EXCEPT ![q] = IdleRequest]
  BY <1>1 DEF CloneFails, PlaceOf, AfterFailure, Removed, Done
<1>3. ~ Clones(q)'
  BY <1>2, RequestShapes DEF Clones, RepoInv, Shape
<1>4. Clones(q)
  BY <1>2 DEF Clones
<1>5. /\ \A r \in Repos : ~ AtHome(r, at)
      /\ \A y \in Requests \ {q} : ~ (Clones(y) /\ PlaceOf(y) = at)
  BY <1>1, <1>4, OneOwner
<1>6. \A r \in Repos : \A p : AtHome(r, p)' <=> AtHome(r, p)
  BY <1>2, RowKept
<1>7. TrashApart'
  BY <1>2 DEF RepoPlaced, TrashApart
<1>8. Accounted(at)'
  BY <1>2 DEF Accounted, RepoInv, Shape
<1> QED BY <1>1, <1>2, <1>3, <1>5, <1>6, <1>7, <1>8, CloneChanges

LEMMA CloneEndsCalm ==
  ASSUME RepoInv, RepoPlaced, NEW q \in Requests, NEW r \in Repos, CloneEnds(q, r)
  PROVE  RepoPlaced'
<1>1. PICK at \in Places : at = PlaceOf(q)
  BY DEF CloneEnds, PlaceOf, Places, RepoInv, Shape, RequestsMade
<1>2. /\ req[q].op = "cloning" /\ disk' = [disk EXCEPT ![at] = r] /\ row' = row /\ tenants' = tenants
      /\ req' = [req EXCEPT ![q].op = "cloned", ![q].id = r]
  BY <1>1 DEF CloneEnds, PlaceOf
<1>3. PICK x : x = [req[q] EXCEPT !.op = "cloned", !.id = r]
  OBVIOUS
<1>4. /\ req' = [req EXCEPT ![q] = x] /\ x.op = "cloned" /\ x.id = r
      /\ x.org = req[q].org /\ x.slug = req[q].slug
  BY <1>2, <1>3 DEF RepoInv, Shape, RequestsMade, Request
<1>5. Clones(q)' /\ PlaceOf(q)' = at
  BY <1>1, <1>4 DEF Clones, PlaceOf, RepoInv, Shape
<1>6. Clones(q)
  BY <1>2 DEF Clones
<1>7. /\ \A y \in Repos : ~ AtHome(y, at)
      /\ \A y \in Requests \ {q} : ~ (Clones(y) /\ PlaceOf(y) = at)
  BY <1>1, <1>6, OneOwner
<1>8. \A y \in Repos : \A p : AtHome(y, p)' <=> AtHome(y, p)
  BY <1>2, RowKept
<1>9. TrashApart'
  BY <1>2 DEF RepoPlaced, TrashApart
<1>10. Accounted(at)'
  BY <1>5 DEF Accounted
<1> QED BY <1>1, <1>2, <1>4, <1>5, <1>7, <1>8, <1>9, <1>10, CloneChanges

LEMMA RecordCalm ==
  ASSUME RepoInv, RepoPlaced, calm', NEW q \in Requests, Record(q)
  PROVE  RepoPlaced'
<1>1. PICK r : r = req[q].id
  OBVIOUS
<1>2. PICK at \in Places : at = PlaceOf(q)
  BY DEF Record, PlaceOf, Places, RepoInv, Shape, RequestsMade
<1>3. /\ req[q].op = "cloned" /\ req' = [req EXCEPT ![q] = IdleRequest] /\ tenants' = tenants
      /\ Cloned(q, r) /\ r \in Repos /\ row[r].st = "none" /\ Clones(q)
      /\ req[q].org \in Orgs /\ req[q].slug \in Slugs
  BY <1>1 DEF Record, Done, Clones, Cloned, RepoInv, Shape, RequestsMade, Ids
<1>4. disk[at] = r /\ disk[at] # Empty
  BY <1>1, <1>2, <1>3, RepositoriesAssumption DEF RepoPlaced, Claimed
<1>5. ~ Clones(q)'
  BY <1>3, RequestShapes DEF Clones, RepoInv, Shape
<1>6. /\ \A y \in Repos : ~ AtHome(y, at)
      /\ \A y \in Requests \ {q} : ~ (Clones(y) /\ PlaceOf(y) = at)
  BY <1>2, <1>3, OneOwner
<1>7. \A p : ~ AtHome(r, p)
  BY <1>3 DEF AtHome, Exists
<1>8. CASE disk' = [disk EXCEPT ![at] = Empty] /\ row' = [row EXCEPT ![r].st = "gone"]
  <2>1. row'[r].st = "gone" /\ \A y \in Repos \ {r} : row'[y] = row[y]
    BY <1>3, <1>8 DEF RepoInv, Shape, RowsMade, Row
  <2>2. \A p : ~ AtHome(r, p)'
    BY <2>1 DEF AtHome, Exists
  <2>3. \A y \in Repos \ {r} : \A p : AtHome(y, p)' <=> AtHome(y, p)
    BY <2>1, RowKept
  <2>4. \A y \in Repos : \A p : AtHome(y, p)' <=> AtHome(y, p)
    BY <1>7, <2>2, <2>3
  <2>5. TrashApart'
    BY <2>1 DEF RepoPlaced, TrashApart
  <2>6. Accounted(at)'
    BY <1>8 DEF Accounted, RepoInv, Shape
  <2> QED BY <1>2, <1>3, <1>5, <1>6, <1>8, <2>4, <2>5, <2>6, CloneChanges
<1>9. CASE disk' = disk /\ row' = [row EXCEPT ![r] = NewRow(req[q].org, req[q].slug)]
  <2>1. /\ row'[r].st = "live" /\ row'[r].org = req[q].org /\ row'[r].slug = req[q].slug
        /\ \A y \in Repos \ {r} : row'[y] = row[y]
    BY <1>3, <1>9 DEF NewRow, NoRow, RepoInv, Shape
  <2>2. \A p : AtHome(r, p)' <=> p = at
    BY <1>2, <2>1 DEF AtHome, Exists, HomeOf, PlaceOf
  <2>3. \A y \in Repos \ {r} : \A p : AtHome(y, p)' <=> AtHome(y, p)
    BY <2>1, RowKept
  <2>4. \A p \in Places \ {at}, y \in Repos : AtHome(y, p)' <=> AtHome(y, p)
    BY <1>7, <2>2, <2>3
  <2>5. \A y \in Repos : AtHome(y, at)' => r = y
    BY <1>6, <2>3
  <2>6. TrashApart'
    BY <2>1 DEF RepoPlaced, TrashApart
  <2>7. Accounted(at)'
    BY <1>3, <2>2 DEF Accounted
  <2>8. disk' = [disk EXCEPT ![at] = r]
    BY <1>4, <1>9 DEF RepoInv, Shape
  <2> QED BY <1>2, <1>3, <1>5, <1>6, <2>4, <2>5, <2>6, <2>7, <2>8, CloneChanges
<1> QED BY <1>1, <1>2, <1>4, <1>8, <1>9 DEF Record, PlaceOf, AfterFailure, Removed

-----------------------------------------------------------------------------
LEMMA CreateCalm ==
  ASSUME RepoInv, RepoPlaced, NEW o \in Orgs, NEW s \in Slugs, NEW r \in Repos, Create(o, s, r)
  PROVE  RepoPlaced'
<1>1. PICK at \in Places : at = <<o, s>>
  BY DEF Places
<1>2. /\ Fresh(r) /\ disk[at] = Empty /\ disk' = [disk EXCEPT ![at] = r] /\ row' = [row EXCEPT ![r] = NewRow(o, s)]
      /\ req' = req /\ tenants' = tenants
  BY <1>1 DEF Create, Free
<1>3. /\ row'[r].st = "live" /\ row'[r].org = o /\ row'[r].slug = s
      /\ \A y \in Repos \ {r} : row'[y] = row[y]
  BY <1>2 DEF NewRow, NoRow, RepoInv, Shape
<1>4. \A p : (AtHome(r, p)' <=> p = at) /\ ~ AtHome(r, p)
  BY <1>1, <1>2, <1>3 DEF AtHome, Exists, HomeOf, Fresh
<1>5. \A y \in Repos \ {r} : \A p : AtHome(y, p)' <=> AtHome(y, p)
  BY <1>3, RowKept
<1>6. /\ \A y \in Repos : ~ AtHome(y, at)
      /\ \A y \in Requests : ~ (Clones(y) /\ PlaceOf(y) = at)
  BY <1>2, OneOwner
<1>7. TrashApart'
  BY <1>3 DEF RepoPlaced, TrashApart
<1>8. Accounted(at)'
  BY <1>4 DEF Accounted
<1>9. RequestsStay
  BY <1>2 DEF RequestsStay
<1>10. PICK C \in SUBSET Places : C = {at}
  OBVIOUS
<1>11. \A p \in Places : disk'[p] = IF p = at THEN r ELSE disk[p]
  BY <1>2 DEF RepoInv, Shape
<1>12. \A p \in Places \ C, y \in Repos : AtHome(y, p)' <=> AtHome(y, p)
  BY <1>4, <1>5, <1>10
<1>13. \A p \in C, y \in Repos : AtHome(y, p)' => disk'[p] = y
  BY <1>4, <1>5, <1>6, <1>10, <1>11
<1>14. \A p \in C, y \in Requests : ~ (Clones(y)' /\ PlaceOf(y)' = p)
  BY <1>6, <1>9, <1>10, ClaimsKept
<1> QED BY <1>2, <1>7, <1>8, <1>9, <1>10, <1>11, <1>12, <1>13, <1>14, ClaimsKept, PlacesFollow

LEMMA BeginCalm ==
  ASSUME RepoInv, RepoPlaced, NEW q \in Requests,
         \/ \E r \in Repos, op \in {"transfer", "trash", "restore", "purge"} : Begin(q, r, op)
         \/ \E o \in Orgs, s \in Slugs : BeginImport(q, o, s)
  PROVE  RepoPlaced'
<1>1. PICK x : req[q].op = "idle" /\ x.op \notin {"cloning", "cloned"} /\ req' = [req EXCEPT ![q] = x]
  <2>1. CASE \E r \in Repos, op \in {"transfer", "trash", "restore", "purge"} : Begin(q, r, op)
    BY <2>1 DEF Begin
  <2>2. CASE \E o \in Orgs, s \in Slugs : BeginImport(q, o, s)
    BY <2>2, RequestShapes DEF BeginImport
  <2> QED BY <2>1, <2>2
<1>2. row' = row /\ disk' = disk /\ tenants' = tenants
  BY DEF Begin, BeginImport
<1>3. RequestsStay
  BY <1>1 DEF RequestsStay, Clones, RepoInv, Shape
<1>4. TrashApart'
  BY <1>2 DEF RepoPlaced, TrashApart
<1> QED BY <1>2, <1>3, <1>4, RowKept, StayPut

LEMMA SwitchCalm ==
  ASSUME RepoInv, RepoPlaced, NEW r \in Repos, ArchiveRepository(r) \/ UnarchiveRepository(r)
  PROVE  RepoPlaced'
<1>1. PICK b \in BOOLEAN : row' = [row EXCEPT ![r] = [row[r] EXCEPT !.archived = b]]
  BY DEF ArchiveRepository, UnarchiveRepository, RepoInv, Shape
<1>2. disk' = disk /\ req' = req /\ tenants' = tenants /\ row[r].st = "live"
  BY DEF ArchiveRepository, UnarchiveRepository
<1>3. /\ row'[r].st = "live" /\ row'[r].org = row[r].org /\ row'[r].slug = row[r].slug
      /\ \A y \in Repos \ {r} : row'[y] = row[y]
  BY <1>1, <1>2 DEF RepoInv, Shape, RowsMade, Row
<1>4. \A p : AtHome(r, p)' <=> AtHome(r, p)
  BY <1>2, <1>3 DEF AtHome, Exists, HomeOf
<1>5. \A y \in Repos : \A p : AtHome(y, p)' <=> AtHome(y, p)
  BY <1>3, <1>4, RowKept
<1>6. TrashApart' /\ RequestsStay
  BY <1>2, <1>3 DEF RepoPlaced, TrashApart, RequestsStay
<1> QED BY <1>2, <1>5, <1>6, StayPut

\* The rows of a tenant go and its bytes stay; what of it lies in Trash can no longer be reached.
LEMMA TenantGoesCalm ==
  ASSUME RepoInv, RepoPlaced, NEW o \in Orgs, DeleteTenant(o)
  PROVE  RepoPlaced'
<1>1. disk' = disk /\ req' = req /\ tenants' = tenants \ {o}
  BY DEF DeleteTenant
<1>2. \A r \in Repos :
        \/ row'[r].st = "gone" /\ Exists(r) /\ row[r].org = o
        \/ Exists(r) /\ row[r].from = o /\ row'[r] = [row[r] EXCEPT !.from = None]
        \/ row'[r] = row[r]
  <2> SUFFICES ASSUME NEW r \in Repos
               PROVE  \/ row'[r].st = "gone" /\ Exists(r) /\ row[r].org = o
                      \/ Exists(r) /\ row[r].from = o /\ row'[r] = [row[r] EXCEPT !.from = None]
                      \/ row'[r] = row[r]
    OBVIOUS
  <2>1. [NoRow EXCEPT !.st = "gone"].st = "gone"
    BY RowShapes, RowChanges
  <2>2. CASE Exists(r) /\ row[r].org = o
    <3>1. row'[r] = [NoRow EXCEPT !.st = "gone"]
      BY <2>2 DEF DeleteTenant
    <3> QED BY <2>1, <2>2, <3>1
  <2>3. CASE ~ (Exists(r) /\ row[r].org = o)
    BY <2>3 DEF DeleteTenant
  <2> QED BY <2>2, <2>3
<1>3. ASSUME NEW r \in Repos
      PROVE  /\ \A p \in Places : AtHome(r, p)' => AtHome(r, p)
             /\ \A p \in Places : AtHome(r, p) => AtHome(r, p)' \/ p[1] \notin tenants'
             /\ row'[r].st = "trash" => row'[r].org = Trash
  <2>1. row[r] \in RowsMade /\ (row[r].st = "trash" => row[r].org = Trash) /\ Trash # o /\ None \notin Orgs
    BY RepositoriesAssumption DEF RepoInv, Shape, RepoPlaced, TrashApart
  <2>2. CASE row'[r].st = "gone" /\ Exists(r) /\ row[r].org = o
    <3>1. row[r].st = "live"
      BY <2>1, <2>2 DEF Exists
    <3>2. \A p \in Places : AtHome(r, p) => p[1] = o
      BY <2>2, <3>1 DEF AtHome, HomeOf
    <3>3. \A p : ~ AtHome(r, p)'
      BY <2>2 DEF AtHome, Exists
    <3> QED BY <1>1, <2>2, <3>2, <3>3
  <2>3. CASE Exists(r) /\ row[r].from = o /\ row'[r] = [row[r] EXCEPT !.from = None]
    <3>1. /\ row'[r].st = row[r].st /\ row'[r].org = row[r].org /\ row'[r].slug = row[r].slug
          /\ row'[r].from = None
      BY <2>1, <2>3 DEF RowsMade, Row
    <3>2. CASE row[r].st = "live"
      <4>1. \A p : AtHome(r, p)' <=> AtHome(r, p)
        BY <3>1, <3>2 DEF AtHome, Exists, HomeOf
      <4> QED BY <3>1, <3>2, <4>1
    <3>3. CASE row[r].st = "trash"
      <4>1. \A p \in Places : AtHome(r, p) => p[1] = o
        BY <2>3, <3>3 DEF AtHome, HomeOf
      <4>2. \A p \in Places : ~ AtHome(r, p)'
        BY <2>1, <3>1, <3>3 DEF AtHome, HomeOf, Places
      <4> QED BY <1>1, <2>1, <3>1, <4>1, <4>2
    <3> QED BY <2>3, <3>2, <3>3 DEF Exists
  <2>4. CASE row'[r] = row[r]
    <3>1. \A p : AtHome(r, p)' <=> AtHome(r, p)
      BY <2>4, RowKept
    <3> QED BY <2>1, <2>4, <3>1
  <2> QED BY <1>2, <2>2, <2>3, <2>4
<1>4. TrashApart' /\ RequestsStay
  BY <1>1, <1>3 DEF TrashApart, RequestsStay
<1> QED BY <1>1, <1>3, <1>4, StayPut

LEMMA CalmStep == CalmInv /\ [RepoNext]_repoVars => CalmInv'
<1> SUFFICES ASSUME CalmInv, [RepoNext]_repoVars PROVE CalmInv'
  OBVIOUS
<1>1. RepoInv /\ RepoInv'
  BY RepoStepOK DEF CalmInv
<1>2. calm' => calm
  <2>1. ASSUME NEW q \in Requests, RequestStep(q) PROVE calm' => calm
    <3>1. ASSUME NEW to \in Orgs, TransferRepository(q, to) PROVE calm' => calm
      BY <3>1, Zenon DEF TransferRepository
    <3>2. ASSUME TrashRepository(q) PROVE calm' => calm
      BY <3>2, Zenon DEF TrashRepository
    <3>3. ASSUME RestoreRepository(q) PROVE calm' => calm
      BY <3>3, Zenon DEF RestoreRepository
    <3>4. ASSUME PurgeRepository(q) PROVE calm' => calm
      BY <3>4, Zenon DEF PurgeRepository
    <3>5. ASSUME CloneStarts(q) PROVE calm' => calm
      BY <3>5, Zenon DEF CloneStarts
    <3>6. ASSUME CloneFails(q) PROVE calm' => calm
      BY <3>6, Zenon DEF CloneFails
    <3>7. ASSUME Record(q) PROVE calm' => calm
      BY <3>7, Zenon DEF Record
    <3>8. ASSUME NEW r \in Repos, CloneEnds(q, r) PROVE calm' => calm
      BY <3>8, Zenon DEF CloneEnds
    <3> QED BY <2>1, <3>1, <3>2, <3>3, <3>4, <3>5, <3>6, <3>7, <3>8 DEF RequestStep
  <2>2. (\E q \in Requests : RequestStep(q)) \/ Crash \/ UNCHANGED calm
    BY Zenon DEF RepoNext, Begin, BeginImport, Create, ArchiveRepository, UnarchiveRepository, DeleteTenant, repoVars
  <2>3. ASSUME Crash PROVE calm' => calm
    BY <2>3, Zenon DEF Crash
  <2> QED BY <2>1, <2>2, <2>3, Zenon
<1>3. ASSUME calm' PROVE RepoPlaced'
  <2>1. RepoPlaced
    BY <1>2, <1>3 DEF CalmInv
  <2>2. ASSUME NEW q \in Requests, RequestStep(q) PROVE RepoPlaced'
    BY <1>1, <1>3, <2>1, <2>2, TransferCalm, TrashCalm, RestoreCalm, PurgeCalm, CloneStartsCalm, CloneFailsCalm,
       CloneEndsCalm, RecordCalm DEF RequestStep
  <2>3. CASE \/ \E q \in Requests, r \in Repos : \E op \in {"transfer", "trash", "restore", "purge"} : Begin(q, r, op)
             \/ \E q \in Requests, o \in Orgs, s \in Slugs : BeginImport(q, o, s)
    BY <1>1, <2>1, <2>3, BeginCalm
  <2>4. CASE \E o \in Orgs, s \in Slugs, r \in Repos : Create(o, s, r)
    BY <1>1, <2>1, <2>4, CreateCalm
  <2>5. CASE \E r \in Repos : ArchiveRepository(r) \/ UnarchiveRepository(r)
    BY <1>1, <2>1, <2>5, SwitchCalm
  <2>6. CASE \E o \in Deletable : DeleteTenant(o)
    BY <1>1, <2>1, <2>6, TenantGoesCalm, RepositoriesAssumption
  <2>7. CASE Crash
    BY <1>3, <2>7 DEF Crash
  <2>8. CASE UNCHANGED repoVars
    <3>1. row' = row /\ disk' = disk /\ req' = req /\ tenants' = tenants
      BY <2>8 DEF repoVars
    <3>2. TrashApart' /\ RequestsStay
      BY <2>1, <3>1 DEF RepoPlaced, TrashApart, RequestsStay
    <3> QED BY <2>1, <3>1, <3>2, RowKept, StayPut
  <2> QED BY <2>2, <2>3, <2>4, <2>5, <2>6, <2>7, <2>8 DEF RepoNext
<1> QED BY <1>1, <1>2, <1>3 DEF CalmInv

LEMMA CalmStarts == RepoInit => CalmInv
<1> SUFFICES ASSUME RepoInit PROVE CalmInv
  OBVIOUS
<1>1. RepoInv
  BY RepoInitOK
<1>2. \A r \in Repos : row[r].st = "none"
  BY DEF RepoInit, NoRow
<1>3. \A q \in Requests : ~ Clones(q)
  BY RequestShapes DEF RepoInit, Clones
<1>4. \A r \in Repos : \A p : ~ AtHome(r, p)
  BY <1>2 DEF AtHome, Exists
<1>5. \A p \in Places : Accounted(p)
  BY DEF RepoInit, Accounted
<1> QED BY <1>1, <1>2, <1>3, <1>4, <1>5 DEF RepoInit, CalmInv, RepoPlaced, BytesAtHome, Claimed, TrashApart

LEMMA CalmMeans == CalmInv => BytesFollowRows
<1> SUFFICES ASSUME CalmInv PROVE BytesFollowRows
  OBVIOUS
<1>1. StorageWhereRowSays
  <2> SUFFICES ASSUME calm, NEW r \in Repos, Exists(r), HomeOf(r)[1] # None PROVE disk[HomeOf(r)] = r
    BY DEF StorageWhereRowSays
  <2>1. HomeOf(r) \in Places /\ BytesAtHome
    BY HomesArePlaces DEF CalmInv, RepoPlaced
  <2> QED BY <2>1 DEF BytesAtHome, AtHome
<1>2. NothingLeftBehind
  <2> SUFFICES ASSUME calm, NEW p \in Places
               PROVE  \/ disk[p] = Empty \/ p[1] \notin tenants
                      \/ \E r \in Repos : Exists(r) /\ disk[p] = r /\ HomeOf(r) = p
                      \/ \E q \in Requests : /\ req[q].op \in {"cloning", "cloned"} /\ p = <<req[q].org, req[q].slug>>
                                             /\ disk[p] \in {q, req[q].id}
    BY DEF NothingLeftBehind
  <2>1. Accounted(p) /\ BytesAtHome /\ Claimed
    BY DEF CalmInv, RepoPlaced
  <2>2. \A r \in Repos : AtHome(r, p) => Exists(r) /\ disk[p] = r /\ HomeOf(r) = p
    BY <2>1 DEF BytesAtHome, AtHome
  <2>3. \A q \in Requests : Clones(q) /\ PlaceOf(q) = p =>
          /\ req[q].op \in {"cloning", "cloned"} /\ p = <<req[q].org, req[q].slug>>
          /\ disk[p] \in {q, req[q].id}
    BY <2>1 DEF Claimed, Clones, PlaceOf
  <2> QED BY <2>1, <2>2, <2>3 DEF Accounted
<1> QED BY <1>1, <1>2 DEF CalmInv, RepoInv, BytesFollowRows

\* Until a request acts on a row that has changed, two clones meet or the server dies, every
\* repository has its own bytes where its row says, nothing else blocks a name, and always
\* the bytes of a repository are in one place (repository-lifecycle.mjs, app.mjs, git.mjs).
THEOREM BytesFollowRowsHolds == RepoSpec => []BytesFollowRows
<1> QED BY CalmStarts, CalmStep, CalmMeans, PTL DEF RepoSpec

\* A repository in use goes only with its tenant: a purge that was confirmed
\* before somebody restored it finds no row (purgeRepository's DELETE).
THEOREM PurgeSparesHolds == RepoSpec => PurgeSparesTheRestored
<1>1. ASSUME RepoInv, [RepoNext]_repoVars, NEW r \in Repos, row[r].st = "live", row'[r].st = "gone"
      PROVE  row[r].org \notin tenants'
  <2>s. row \in [Repos -> RowsMade] /\ Ids /\ req \in [Requests -> RequestsMade]
    BY <1>1 DEF RepoInv, Shape
  <2>1. ASSUME NEW q \in Requests, RequestStep(q) PROVE FALSE
    <3> DEFINE x == req[q].id
    <3>1. ASSUME NEW to \in Orgs, TransferRepository(q, to) PROVE FALSE
      <4>1. row' = row \/ row' = [row EXCEPT ![x] = [row[x] EXCEPT !.org = to]]
        BY <2>s, <3>1, <1>1 DEF TransferRepository
      <4>2. x \in Repos => [row[x] EXCEPT !.org = to].st = row[x].st
        BY <2>s, RowChanges
      <4> HIDE DEF x
      <4> QED BY <1>1, <2>s, <4>1, <4>2
    <3>2. ASSUME TrashRepository(q) \/ RestoreRepository(q) PROVE FALSE
      <4> DEFINE was == req[q].was
      <4>1. \/ row' = row
            \/ was.st = "live" /\ row' = [row EXCEPT ![x] = Trashed(x, was)]
            \/ was.st = "trash" /\ was.from \in Orgs /\ row' = [row EXCEPT ![x] = Restored(x, was)]
        BY <1>1, <2>s, <3>2 DEF TrashRepository, RestoreRepository, MayTouchTrash, RepoInv, Shape, RequestsMade
      <4>2. was \in RowsMade /\ Shape
        BY <1>1, <2>s DEF RequestsMade, RepoInv
      <4> HIDE DEF x, was
      <4>3. /\ x \in Repos /\ was.st = "live" => Trashed(x, was).st = "trash"
            /\ x \in Repos /\ was.st = "trash" /\ was.from \in Orgs => Restored(x, was).st = "live"
        BY <4>2, TrashShapes
      <4> QED BY <1>1, <2>s, <4>1, <4>3
    <3>3. ASSUME PurgeRepository(q) PROVE FALSE
      <4>1. row' = row \/ (row[x].st = "trash" /\ row' = [row EXCEPT ![x] = [NoRow EXCEPT !.st = "gone"]])
        BY <3>3 DEF PurgeRepository, Purgeable
      <4> HIDE DEF x
      <4> QED BY <1>1, <2>s, <4>1
    <3>4. ASSUME Record(q) PROVE FALSE
      <4>1. /\ x \in Repos /\ row[x].st = "none"
            /\ \A y \in Repos \ {x} : row'[y] = row[y]
        BY <2>s, <3>4 DEF Record, RequestsMade, Ids, Cloned
      <4> QED BY <1>1, <4>1
    <3>5. ASSUME CloneStarts(q) \/ CloneFails(q) \/ \E y \in Repos : CloneEnds(q, y) PROVE FALSE
      BY <1>1, <3>5 DEF CloneStarts, CloneFails, CloneEnds
    <3> QED BY <2>1, <3>1, <3>2, <3>3, <3>4, <3>5 DEF RequestStep
  <2>2. ASSUME NEW o \in Orgs, DeleteTenant(o) PROVE row[r].org \notin tenants'
    <3>1. (Exists(r) /\ row[r].org = o) \/ row'[r].st = row[r].st
      BY <2>2, <2>s, RowChanges DEF DeleteTenant
    <3> QED BY <1>1, <2>2, <3>1 DEF DeleteTenant
  <2>3. ASSUME Crash PROVE FALSE
    <3> DEFINE lost == {req[q].id : q \in {x \in Requests : req[x].op = "cloned"}}
    <3>1. r \in lost \/ row'[r] = row[r]
      BY <2>3 DEF Crash
    <3>2. r \in lost => row[r].st = "none"
      BY <2>s DEF Ids, Cloned
    <3> QED BY <1>1, <3>1, <3>2
  <2>4. ASSUME NEW o \in Orgs, NEW s \in Slugs, NEW x \in Repos, Create(o, s, x) PROVE FALSE
    BY <1>1, <2>s, <2>4, RowShapes DEF Create
  <2>5. ASSUME NEW x \in Repos, ArchiveRepository(x) \/ UnarchiveRepository(x) PROVE FALSE
    <3>1. PICK b \in BOOLEAN : row' = [row EXCEPT ![x] = [row[x] EXCEPT !.archived = b]]
      BY <2>5, <2>s DEF ArchiveRepository, UnarchiveRepository
    <3>2. [row[x] EXCEPT !.archived = b].st = row[x].st
      BY <2>s, RowChanges
    <3> QED BY <1>1, <2>s, <3>1, <3>2
  <2>6. row' # row
    BY <1>1
  <2> QED BY <1>1, <2>1, <2>2, <2>3, <2>4, <2>5, <2>6, RepositoriesAssumption
          DEF RepoNext, Begin, BeginImport, repoVars
<1>2. RepoInv /\ [RepoNext]_repoVars =>
        [\A r \in Repos : row[r].st = "live" /\ row'[r].st = "gone" => row[r].org \notin tenants']_repoVars
  BY <1>1
<1> QED BY <1>2, PlacesInvariance, PTL DEF RepoSpec, PurgeSparesTheRestored

-----------------------------------------------------------------------------
(* ImportJob: any number of items and any choice of private ones.          *)

\* What an item may be while its job is in a given state.
Agree ==
  /\ job = "none" => ~working /\ \A i \in Items : item[i] = "pending"
  /\ job = "done" => ~working /\ \A i \in Items : item[i] \notin {"pending", "importing"}
  /\ job = "cancelled" => \A i \in Items : item[i] # "pending"
  /\ working => \A i \in Items : item[i] = "importing" => cloning = i
  /\ ~working /\ job # "gone" /\ jobCrashes = 0 => \A i \in Items : item[i] # "importing"

JobInv == JobTypeOK /\ Agree /\ TokenOnlyWhileRunning

-----------------------------------------------------------------------------
LEMMA JobInitOK == JobInit => JobInv
<1> SUFFICES ASSUME JobInit PROVE JobInv
    OBVIOUS
<1>1. JobTypeOK
  <2>1. jobCrashes \in 0 .. MaxJobCrashes /\ cloning \in Items \cup {Idle}
      BY ImportJobAssumption DEF JobInit
  <2>2. token \in BOOLEAN /\ carried \in BOOLEAN /\ working \in BOOLEAN
      BY Zenon DEF JobInit
  <2> QED BY <2>1, <2>2 DEF JobInit, JobTypeOK
<1>2. Agree /\ TokenOnlyWhileRunning
    BY DEF JobInit, Agree, TokenOnlyWhileRunning
<1> QED BY <1>1, <1>2 DEF JobInv

\* One turn of the loop, from the items as the clone before it left them: none
\* is being imported.
LEMMA TurnOK ==
  ASSUME JobInv, working, job \in {"running", "cancelled"},
         NEW st \in [Items -> {"pending", "importing", "imported", "failed", "skipped"}],
         \A i \in Items : st[i] # "importing",
         job = "cancelled" => \A i \in Items : st[i] # "pending",
         NEW tok \in BOOLEAN, Turn(st, tok), UNCHANGED <<carried, jobCrashes>>
  PROVE  JobInv'
<1> USE DEF JobInv, JobTypeOK
<1>1. ASSUME NEW n \in Pending(st), job # "cancelled",
             item' = [Refused(st, {i \in Pending(st) : i < n}) EXCEPT ![n] = "importing"],
             cloning' = n, UNCHANGED <<job, token, working>>
      PROVE  JobInv'
  <2>1. n \in Items
      BY DEF Pending
  <2>2. JobTypeOK'
      BY <1>1, <2>1 DEF Refused
  <2>3. \A i \in Items : item'[i] = "importing" => i = n
      BY <1>1, <2>1 DEF Refused
  <2>4. Agree'
      BY <1>1, <2>3 DEF Agree
  <2> QED BY <1>1, <2>2, <2>4 DEF TokenOnlyWhileRunning
<1>2. ASSUME item' = IF job = "cancelled" THEN st ELSE Refused(st, Pending(st)),
             job' = Finished, token' = AfterJob, working' = FALSE, cloning' = Idle
      PROVE  JobInv'
  <2>1. item' \in [Items -> {"pending", "importing", "imported", "failed", "skipped"}]
      BY <1>2 DEF Refused
  <2>2. \A i \in Items : item'[i] \notin {"pending", "importing"}
      BY <1>2 DEF Refused, Pending
  <2>3. job' \in {"done", "cancelled"} /\ token' = FALSE
      BY <1>2 DEF Finished, AfterJob
  <2>4. JobTypeOK'
      BY <1>2, <2>1, <2>3
  <2>5. Agree'
      BY <1>2, <2>2, <2>3 DEF Agree
  <2> QED BY <2>3, <2>4, <2>5 DEF TokenOnlyWhileRunning
<1> QED BY <1>1, <1>2 DEF Turn

LEMMA JobStepOK == JobInv /\ [JobNext]_jobVars => JobInv'
<1> SUFFICES ASSUME JobInv, [JobNext]_jobVars PROVE JobInv'
    OBVIOUS
<1> USE ImportJobAssumption DEF JobInv, JobTypeOK
<1>1. ASSUME NEW t \in BOOLEAN, StartJob(t) PROVE JobInv'
  <2>1. ASSUME NEW n \in Items,
               item' = [Refused(item, {i \in Items : i < n}) EXCEPT ![n] = "importing"],
               cloning' = n, job' = "running", token' = t, working' = TRUE
        PROVE  JobInv'
    <3>1. JobTypeOK'
        BY <1>1, <2>1 DEF StartJob, Refused
    <3>2. \A i \in Items : item'[i] = "importing" => i = n
        BY <1>1, <2>1 DEF StartJob, Agree, Refused
    <3>3. Agree'
        BY <2>1, <3>2 DEF Agree
    <3> QED BY <2>1, <3>1, <3>3 DEF TokenOnlyWhileRunning
  <2>2. ASSUME item' = Refused(item, Items), cloning' = Idle, job' = "done", token' = FALSE,
               working' = FALSE
        PROVE  JobInv'
    <3>1. JobTypeOK'
        BY <1>1, <2>2 DEF StartJob, Refused
    <3>2. Agree'
        BY <2>2 DEF Agree, Refused
    <3> QED BY <2>2, <3>1, <3>2 DEF TokenOnlyWhileRunning
  <2> QED BY <1>1, <2>1, <2>2 DEF StartJob
<1>2. ASSUME NEW o \in {"imported", "failed"}, ItemEnds(o) PROVE JobInv'
  <2> DEFINE st == OutcomeOf(cloning, o)
  <2>1. cloning \in Items /\ working /\ job # "gone"
      BY <1>2 DEF ItemEnds
  <2>2. job \in {"running", "cancelled"}
      BY <2>1 DEF Agree
  <2>3. st \in [Items -> {"pending", "importing", "imported", "failed", "skipped"}]
      BY <2>1 DEF OutcomeOf
  <2>4. \A i \in Items : st[i] # "importing" /\ (job = "cancelled" => st[i] # "pending")
      BY <2>1 DEF OutcomeOf, Agree
  <2>5. Turn(st, carried) /\ UNCHANGED <<carried, jobCrashes>>
      BY <1>2 DEF ItemEnds
  <2> HIDE DEF st
  <2> QED BY <2>1, <2>2, <2>3, <2>4, <2>5, TurnOK
<1>3. CASE ItemEndsAfterTheOrganization
    BY <1>3 DEF ItemEndsAfterTheOrganization, Agree, TokenOnlyWhileRunning
<1>4. CASE CancelJob
  <2>1. JobTypeOK'
      BY <1>4 DEF CancelJob, Skipped
  <2>2. Agree'
      BY <1>4 DEF CancelJob, Skipped, Agree
  <2> QED BY <1>4, <2>1, <2>2 DEF CancelJob, TokenOnlyWhileRunning
<1>5. CASE OrganizationDeleted
    BY <1>5 DEF OrganizationDeleted, Agree, TokenOnlyWhileRunning
<1>6. CASE ProcessDies
  <2>1. JobTypeOK'
    <3>1. jobCrashes' \in 0 .. MaxJobCrashes /\ cloning' \in Items \cup {Idle}
        BY <1>6 DEF ProcessDies
    <3>2. token' \in BOOLEAN /\ carried' \in BOOLEAN /\ working' \in BOOLEAN
        BY <1>6, Zenon DEF ProcessDies
    <3> QED BY <1>6, <3>1, <3>2 DEF ProcessDies
  <2>2. jobCrashes' # 0
      BY <1>6 DEF ProcessDies
  <2>3. Agree'
      BY <1>6, <2>2 DEF ProcessDies, Agree
  <2> QED BY <1>6, <2>1, <2>3 DEF ProcessDies, TokenOnlyWhileRunning
<1>7. CASE UNCHANGED jobVars
    BY <1>7 DEF jobVars, Agree, TokenOnlyWhileRunning
<1> QED BY <1>1, <1>2, <1>3, <1>4, <1>5, <1>6, <1>7 DEF JobNext, ItemStep

\* The invariant of the job: its items agree with its status and its worker.
THEOREM JobInvariance == JobSpec => []JobInv
<1> QED BY JobInitOK, JobStepOK, PTL DEF JobSpec

\* The credential goes with the job on every path that leaves the organization
\* (repository-import-jobs.mjs:301).
THEOREM TokenHolds == JobSpec => []TokenOnlyWhileRunning
<1>1. JobInv => TokenOnlyWhileRunning
    BY DEF JobInv
<1> QED BY <1>1, JobInvariance, PTL

\* Every item has an outcome when the job is over (repository-import-jobs.mjs:200-304).
THEOREM AccountedHolds == JobSpec => []EveryItemAccounted
<1>1. JobInv => EveryItemAccounted
    BY DEF JobInv, Agree, EveryItemAccounted
<1> QED BY <1>1, JobInvariance, PTL

\* A cancelled job stays cancelled, whatever its last clone does
\* (repository-import-jobs.mjs:298-300).
THEOREM CancelledStaysHolds == JobSpec => CancelledStays
<1>1. ASSUME [JobNext]_jobVars, job = "cancelled" PROVE job' \in {"cancelled", "gone"}
    BY <1>1 DEF JobNext, StartJob, ItemStep, ItemEnds, ItemEndsAfterTheOrganization, CancelJob,
                OrganizationDeleted, ProcessDies, Turn, Finished, jobVars
<1>2. [JobNext]_jobVars => [job = "cancelled" => job' \in {"cancelled", "gone"}]_jobVars
    BY <1>1
<1> QED BY <1>2, PTL DEF JobSpec, CancelledStays

-----------------------------------------------------------------------------
(* TenantDeletion: any grace, and a clock without bound of its own.        *)

CauseOK ==
  cause \in [how: {"none", "deleted"}, forced: BOOLEAN, waived: BOOLEAN, early: Nat,
             asked: Nat, export: Exports \cup {"none"}]

\* What is scheduled is one request, and the tenant stays removed.
OneScheduled == \A d, e \in Deletions : Scheduled(d) /\ Scheduled(e) => d = e

DeletionInv == DeletionTypeOK /\ CauseOK /\ OneScheduled

-----------------------------------------------------------------------------
\* Two dates on the same day, or in order of their days, are at most a half-day
\* the wrong way round (tenant-lifecycle.mjs:364).
LEMMA WithinTheDay ==
  ASSUME NEW due \in Nat, NEW at \in Nat, due \div 2 <= at \div 2, at < due
  PROVE  due - at <= 1
  OBVIOUS

LEMMA DeletionInitOK == DeletionInit => DeletionInv
<1> SUFFICES ASSUME DeletionInit PROVE DeletionInv
    OBVIOUS
<1>1. DeletionTypeOK
    BY TenantDeletionAssumption DEF DeletionInit, DeletionTypeOK, NoDeletion, NoExport, RowKinds, Never
<1>2. CauseOK
    BY DEF DeletionInit, CauseOK, NoCause
<1>3. OneScheduled
    BY DEF DeletionInit, OneScheduled, Scheduled, NoDeletion
<1> QED BY <1>1, <1>2, <1>3 DEF DeletionInv

\* What the transaction leaves of the tenant is well typed.
LEMMA RemovalOK ==
  ASSUME DeletionInv, NEW d \in Deletions, NEW force \in BOOLEAN, NEW without \in BOOLEAN,
         Removal(d, force, without)
  PROVE  rows' \subseteq RowKinds /\ there' = FALSE /\ CauseOK'
<1>1. deletion[d].due \in Nat /\ deletion[d].at \in Nat /\ now \in Nat
    BY TenantDeletionAssumption DEF DeletionInv, DeletionTypeOK
<1>2. (IF now < deletion[d].due THEN deletion[d].due - now ELSE 0) \in Nat
    BY <1>1
<1>3. rows' \subseteq RowKinds /\ there' = FALSE
    BY DEF DeletionInv, DeletionTypeOK, Removal
<1>4. CASE ~there
  <2>1. cause' = cause
      BY <1>4 DEF Removal
  <2> QED BY <2>1, <1>3 DEF DeletionInv, CauseOK
<1>5. CASE there
  <2> DEFINE early == IF now < deletion[d].due THEN deletion[d].due - now ELSE 0
  <2>1. PICK x \in Exports \cup {"none"} :
          cause' = [how |-> "deleted", forced |-> force, waived |-> without, early |-> early,
                    asked |-> deletion[d].at, export |-> x]
      BY <1>5 DEF Removal, NewestVerified, VerifiedSince
  <2>2. early \in Nat
      BY <1>2
  <2> HIDE DEF early
  <2>3. CauseOK'
      BY <1>1, <2>1, <2>2 DEF CauseOK
  <2> QED BY <2>3, <1>3
<1> QED BY <1>3, <1>4, <1>5 DEF DeletionInv, DeletionTypeOK

\* Steps that leave the requests, or the cause, as they are.
LEMMA SameRequests == ASSUME OneScheduled, UNCHANGED deletion PROVE OneScheduled'
    BY DEF OneScheduled, Scheduled

LEMMA SameCause == ASSUME CauseOK, UNCHANGED cause PROVE CauseOK'
    BY DEF CauseOK

\* What the statements write into a row of a request or of an export.
DeletionRequests == [status: {"none", "scheduled", "cancelled", "executed", "failed"},
             at: Nat, due: Nat, complete: BOOLEAN, waived: BOOLEAN]
Records  == [st: {"none", "reading", "recorded", "verified"}, begun: Nat, at: Nat,
             has: SUBSET Writings, whole: BOOLEAN, complete: BOOLEAN]

LEMMA ReportedRow ==
  ASSUME NEW r \in DeletionRequests, NEW s \in {"executed", "failed"}, NEW c \in BOOLEAN, NEW w \in BOOLEAN
  PROVE  [r EXCEPT !.status = s, !.complete = c, !.waived = w] \in DeletionRequests
  BY DEF DeletionRequests

LEMMA ExportedRow ==
  ASSUME NEW r \in Records, NEW n \in Nat, NEW b \in BOOLEAN, NEW W \in SUBSET Writings
  PROVE  /\ [r EXCEPT !.st = "reading", !.begun = n, !.has = W] \in Records
         /\ [r EXCEPT !.st = "recorded", !.at = n, !.has = W, !.whole = b, !.complete = b] \in Records
         /\ [r EXCEPT !.st = "verified", !.complete = b] \in Records
  BY DEF Records

LEMMA DeletionStepOK == DeletionInv /\ [DeletionNext]_deletionVars => DeletionInv'
<1> SUFFICES ASSUME DeletionInv, [DeletionNext]_deletionVars PROVE DeletionInv'
    OBVIOUS
<1>t. DeletionTypeOK /\ CauseOK /\ OneScheduled
    BY DEF DeletionInv
<1> USE TenantDeletionAssumption
<1>1. ASSUME NEW d \in Deletions, RequestTenantDeletion(d) PROVE DeletionInv'
  <2>1. now \in Nat /\ now + 2 * DeletionGraceDays \in Nat
      BY <1>t DEF DeletionTypeOK
  <2>2. DeletionTypeOK'
      BY <1>1, <1>t, <2>1, ZenonT(60) DEF RequestTenantDeletion, DeletionTypeOK
  <2>3. OneScheduled'
      BY <1>1, <1>t DEF RequestTenantDeletion, NoneScheduled, OneScheduled, Scheduled, DeletionTypeOK
  <2>4. CauseOK'
      BY <1>1, <1>t, SameCause DEF RequestTenantDeletion
  <2> QED BY <2>2, <2>3, <2>4 DEF DeletionInv
<1>2. ASSUME NEW d \in Deletions, CancelTenantDeletion(d) PROVE DeletionInv'
  <2>1. DeletionTypeOK'
      BY <1>2, <1>t DEF CancelTenantDeletion, DeletionTypeOK
  <2>2. OneScheduled'
      BY <1>2, <1>t DEF CancelTenantDeletion, OneScheduled, Scheduled, DeletionTypeOK
  <2>3. CauseOK'
      BY <1>2, <1>t, SameCause DEF CancelTenantDeletion
  <2> QED BY <2>1, <2>2, <2>3 DEF DeletionInv
<1>3. ASSUME NEW d \in Deletions, NEW force \in BOOLEAN, NEW without \in BOOLEAN,
             ExecuteTenantDeletion(d, force, without)
      PROVE  DeletionInv'
  <2>1. rows' \subseteq RowKinds /\ there' = FALSE /\ CauseOK'
      BY <1>3, RemovalOK DEF ExecuteTenantDeletion
  <2> DEFINE complete == CensusClean(rows') /\ ~there'
             waived == VerifiedSince(d) = {}
  <2>2. DeletionTypeOK'
    <3> DEFINE outcome == IF complete THEN "executed" ELSE "failed"
               entry == [deletion[d] EXCEPT !.status = outcome, !.complete = complete, !.waived = waived]
    <3>1. deletion \in [Deletions -> DeletionRequests]
        BY <1>t DEF DeletionTypeOK, DeletionRequests
    <3>2. entry \in DeletionRequests
        BY <3>1, ReportedRow
    <3>3. deletion' = [deletion EXCEPT ![d] = entry] /\ UNCHANGED <<written, export, now, deletionCrashes>>
        BY <1>3 DEF ExecuteTenantDeletion
    <3> HIDE DEF entry
    <3>4. deletion' \in [Deletions -> DeletionRequests]
        BY <3>1, <3>2, <3>3
    <3>5. there' \in BOOLEAN
        BY <2>1
    <3> QED BY <1>t, <2>1, <3>3, <3>4, <3>5 DEF DeletionTypeOK, DeletionRequests
  <2>3. OneScheduled'
      BY <1>3, <1>t DEF ExecuteTenantDeletion, OneScheduled, Scheduled, DeletionTypeOK
  <2> QED BY <2>1, <2>2, <2>3 DEF DeletionInv
<1>4. ASSUME NEW d \in Deletions, NEW force \in BOOLEAN, NEW without \in BOOLEAN,
             ExecutionDies(d, force, without)
      PROVE  DeletionInv'
  <2>1. rows' \subseteq RowKinds /\ there' = FALSE /\ CauseOK'
      BY <1>4, RemovalOK DEF ExecutionDies
  <2>2. DeletionTypeOK'
    <3>1. deletionCrashes' \in 0 .. MaxDeletionCrashes
        BY <1>4, <1>t DEF ExecutionDies, DeletionTypeOK
    <3>2. there' \in BOOLEAN /\ UNCHANGED <<deletion, written, export, now>>
        BY <1>4, <2>1 DEF ExecutionDies
    <3> QED BY <1>t, <2>1, <3>1, <3>2 DEF DeletionTypeOK
  <2>3. OneScheduled'
      BY <1>4, <1>t, SameRequests DEF ExecutionDies
  <2> QED BY <2>1, <2>2, <2>3 DEF DeletionInv
<1>5. ASSUME NEW x \in Exports, NEW b \in BOOLEAN,
             BeginExport(x) \/ RecordExport(x, b) \/ VerifyExport(x, b)
      PROVE  DeletionInv'
  <2>1. UNCHANGED <<deletion, cause, rows, there, written, now, deletionCrashes>>
      BY <1>5 DEF BeginExport, RecordExport, VerifyExport
  <2>2. export \in [Exports -> Records] /\ now \in Nat
      BY <1>t DEF DeletionTypeOK, Records
  <2>3. Verdict(x, b) \in BOOLEAN
      BY <2>2 DEF Verdict, Records
  <2>4. PICK entry \in Records : export' = [export EXCEPT ![x] = entry]
    <3>1. CASE BeginExport(x)
        BY <2>2, <3>1, ExportedRow DEF BeginExport, Present
    <3>2. CASE RecordExport(x, b)
      <4>1. PICK read \in SUBSET Present :
              export' = [export EXCEPT ![x] = [@ EXCEPT !.st = "recorded", !.at = now, !.has = read,
                                                !.whole = b, !.complete = b]]
          BY <3>2 DEF RecordExport
      <4>2. read \in SUBSET Writings
          BY DEF Present
      <4> QED BY <2>2, <4>1, <4>2, ExportedRow
    <3>3. CASE VerifyExport(x, b)
        BY <2>2, <2>3, <3>3, ExportedRow DEF VerifyExport
    <3> QED BY <1>5, <3>1, <3>2, <3>3
  <2>5. export' \in [Exports -> Records]
      BY <2>2, <2>4
  <2>6. DeletionTypeOK'
      BY <1>t, <2>1, <2>5 DEF DeletionTypeOK, Records
  <2> QED BY <1>t, <2>1, <2>6, SameRequests, SameCause DEF DeletionInv
<1>6. CASE TrashSomething
  <2>1. DeletionTypeOK'
      BY <1>6, <1>t DEF TrashSomething, DeletionTypeOK, RowKinds
  <2> QED BY <1>6, <1>t, <2>1, SameRequests, SameCause DEF TrashSomething, DeletionInv
<1>7. CASE HalfDayPasses
  <2>1. DeletionTypeOK'
      BY <1>7, <1>t DEF HalfDayPasses, DeletionTypeOK
  <2> QED BY <1>7, <1>t, <2>1, SameRequests, SameCause DEF HalfDayPasses, DeletionInv
<1>8. CASE UNCHANGED deletionVars
  <2>1. DeletionTypeOK'
      BY <1>8, <1>t DEF deletionVars, DeletionTypeOK
  <2> QED BY <1>8, <1>t, <2>1, SameRequests, SameCause DEF deletionVars, DeletionInv
<1>9. ASSUME NEW i \in Writings, WriteItem(i) PROVE DeletionInv'
  <2>1. DeletionTypeOK'
      BY <1>9, <1>t DEF WriteItem, DeletionTypeOK
  <2> QED BY <1>9, <1>t, <2>1, SameRequests, SameCause DEF WriteItem, DeletionInv
<1> QED BY <1>1, <1>2, <1>3, <1>4, <1>5, <1>6, <1>7, <1>8, <1>9 DEF DeletionNext

\* The invariant of the deletion: types, and one date at a time.
THEOREM DeletionInvariance == DeletionSpec => []DeletionInv
<1> QED BY DeletionInitOK, DeletionStepOK, PTL DEF DeletionSpec

\* Every reachable state is well typed.
THEOREM DeletionTypeCorrect == DeletionSpec => []DeletionTypeOK
<1>1. DeletionInv => DeletionTypeOK
    BY DEF DeletionInv
<1> QED BY <1>1, DeletionInvariance, PTL

\* A tenant is never given two dates (tenant-lifecycle.mjs:283-285).
THEOREM OneDateHolds == DeletionSpec => []OneDateAtATime
<1>1. ASSUME DeletionInv PROVE OneDateAtATime
  <2> DEFINE S == {d \in Deletions : Scheduled(d)}
  <2>1. CASE S = {}
      BY <2>1, FS_EmptySet DEF OneDateAtATime
  <2>2. CASE S # {}
    <3>1. PICK d \in Deletions : Scheduled(d)
        BY <2>2
    <3>2. S = {d}
        BY <3>1, <1>1 DEF DeletionInv, OneScheduled
    <3> HIDE DEF S
    <3>3. Cardinality(S) = 1
        BY <3>2, FS_Singleton
    <3> QED BY <3>3 DEF OneDateAtATime, S
  <2> QED BY <2>1, <2>2
<1> QED BY <1>1, DeletionInvariance, PTL

-----------------------------------------------------------------------------
\* Only the transaction of a deletion writes the cause.
LEMMA CauseByRemoval ==
  ASSUME [DeletionNext]_deletionVars, cause' # cause
  PROVE  \E d \in Deletions, force, without \in BOOLEAN :
           MayExecute(d, force, without) /\ Removal(d, force, without)
<1>1. ASSUME NEW d \in Deletions PROVE ~RequestTenantDeletion(d) /\ ~CancelTenantDeletion(d)
    BY DEF RequestTenantDeletion, CancelTenantDeletion
<1>2. ASSUME NEW x \in Exports, NEW b \in BOOLEAN
      PROVE  ~BeginExport(x) /\ ~RecordExport(x, b) /\ ~VerifyExport(x, b)
    BY DEF BeginExport, RecordExport, VerifyExport
<1>3. ~TrashSomething /\ ~HalfDayPasses /\ ~UNCHANGED deletionVars /\ \A i \in Writings : ~WriteItem(i)
    BY DEF TrashSomething, HalfDayPasses, deletionVars, WriteItem
<1>4. PICK d \in Deletions, force \in BOOLEAN, without \in BOOLEAN :
        ExecuteTenantDeletion(d, force, without) \/ ExecutionDies(d, force, without)
    BY <1>1, <1>2, <1>3 DEF DeletionNext
<1> QED BY <1>4 DEF ExecuteTenantDeletion, ExecutionDies

\* What an archive may be without: what was written after it began to be read and
\* before it was recorded, or after that; an archive that is not whole may be without
\* anything, and is never verified complete.
ExportMisses(x) ==
  /\ export[x].st = "reading" =>
       /\ export[x].begun <= now
       /\ \A i \in Present \ export[x].has : written[i] >= export[x].begun
  /\ export[x].st \in {"recorded", "verified"} =>
       /\ export[x].at <= now
       /\ export[x].complete => export[x].whole
       /\ export[x].whole => \A i \in Present \ export[x].has :
            written[i] >= export[x].at \/ written[i] \in export[x].begun .. export[x].at

\* Nothing was written later than now, and the export a deletion named stays what it was.
ArchivesOK ==
  /\ \A x \in Exports : ExportMisses(x)
  /\ \A i \in Present : written[i] <= now
  /\ cause.how = "deleted" /\ cause.export # "none" =>
       LET x == export[cause.export] IN x.st = "verified" /\ x.whole /\ x.at >= cause.asked
  /\ cause.how = "deleted" /\ ~cause.waived => cause.export # "none"

\* What is in no archive is what the property excuses.
LEMMA ArchivesSave == DeletionInv /\ ArchivesOK => SurvivesDeletion
<1> SUFFICES ASSUME DeletionInv, ArchivesOK, cause.how = "deleted", ~cause.waived,
                    NEW i \in Present \ export[cause.export].has
             PROVE  \/ written[i] >= cause.asked
                    \/ written[i] \in export[cause.export].begun .. export[cause.export].at
    BY DEF ArchivesOK, SurvivesDeletion
<1> DEFINE x == cause.export
<1>1. x \in Exports /\ i \in Writings
    BY DEF ArchivesOK, DeletionInv, CauseOK, Present
<1>2. export[x].at \in Nat /\ cause.asked \in Nat /\ written[i] \in Nat
    BY <1>1 DEF DeletionInv, DeletionTypeOK, CauseOK
<1>3. export[x].at >= cause.asked /\ export[x].st = "verified" /\ export[x].whole
    BY <1>1, TenantDeletionAssumption DEF ArchivesOK
<1>4. written[i] >= export[x].at \/ written[i] \in export[x].begun .. export[x].at
    BY <1>1, <1>3 DEF ArchivesOK, ExportMisses
<1> QED BY <1>2, <1>3, <1>4

LEMMA ArchivesInitOK == DeletionInit => ArchivesOK
    BY TenantDeletionAssumption DEF DeletionInit, NoExport, NoCause, ArchivesOK, ExportMisses, Present, Never

\* Steps that touch no export and no work.
LEMMA ArchivesKept ==
  ASSUME DeletionInv, DeletionInv', ArchivesOK, UNCHANGED <<export, written>>, now' \in {now, now + 1}
  PROVE  /\ \A x \in Exports : ExportMisses(x)'
         /\ \A i \in Present' : written'[i] <= now'
<1>1. Present' = Present
    BY DEF Present
<1>2. now \in Nat /\ (\A i \in Writings : written[i] \in Nat) /\ Present \subseteq Writings
    BY TenantDeletionAssumption DEF DeletionInv, DeletionTypeOK, Present
<1>3. \A x \in Exports : export[x].begun \in Nat /\ export[x].at \in Nat
    BY DEF DeletionInv, DeletionTypeOK
<1>4. \A n \in Nat : n <= now => n <= now'
    BY <1>2
<1>5. ASSUME NEW x \in Exports PROVE ExportMisses(x)'
    BY <1>1, <1>3, <1>4 DEF ArchivesOK, ExportMisses
<1>6. ASSUME NEW i \in Present' PROVE written'[i] <= now'
    BY <1>1, <1>2, <1>4 DEF ArchivesOK
<1> QED BY <1>5, <1>6

\* What the transaction of a deletion names.
LEMMA RemovalNames ==
  ASSUME DeletionInv, ArchivesOK, UNCHANGED <<export, written, now>>,
         NEW d \in Deletions, NEW force \in BOOLEAN, NEW without \in BOOLEAN,
         MayExecute(d, force, without), Removal(d, force, without)
  PROVE  /\ cause'.how = "deleted" /\ cause'.export # "none" =>
              LET x == export'[cause'.export] IN x.st = "verified" /\ x.whole /\ x.at >= cause'.asked
         /\ cause'.how = "deleted" /\ ~cause'.waived => cause'.export # "none"
<1>1. CASE ~there
    BY <1>1 DEF Removal, ArchivesOK
<1>2. CASE there
  <2> DEFINE early == IF now < deletion[d].due THEN deletion[d].due - now ELSE 0
  <2>0. PICK x \in IF VerifiedSince(d) = {} THEN {"none"} ELSE NewestVerified(d) :
          cause' = [how |-> "deleted", forced |-> force, waived |-> without, early |-> early,
                    asked |-> deletion[d].at, export |-> x]
      BY <1>2 DEF Removal
  <2> HIDE DEF early
  <2>1. cause'.waived = without /\ cause'.asked = deletion[d].at /\ cause'.export = x
      BY <2>0
  <2>2. CASE VerifiedSince(d) = {}
      BY <2>1, <2>2 DEF MayExecute
  <2>3. CASE VerifiedSince(d) # {}
    <3>1. x \in VerifiedSince(d)
        BY <2>1, <2>3 DEF NewestVerified
    <3>2. /\ x \in Exports /\ export[x].st = "verified" /\ export[x].complete
          /\ export[x].at >= deletion[d].at
        BY <3>1 DEF VerifiedSince
    <3>3. export[x].whole
        BY <3>2 DEF ArchivesOK, ExportMisses
    <3> QED BY <2>1, <3>2, <3>3, TenantDeletionAssumption
  <2> QED BY <2>2, <2>3
<1> QED BY <1>1, <1>2

LEMMA ArchivesStepOK ==
  DeletionInv /\ DeletionInv' /\ ArchivesOK /\ [DeletionNext]_deletionVars => ArchivesOK'
<1> SUFFICES ASSUME DeletionInv, DeletionInv', ArchivesOK, [DeletionNext]_deletionVars PROVE ArchivesOK'
    OBVIOUS
<1>t. /\ export \in [Exports -> Records] /\ now \in Nat /\ Present \subseteq Writings
      /\ \A i \in Writings : written[i] \in Nat
    BY TenantDeletionAssumption DEF DeletionInv, DeletionTypeOK, Records, Present
<1>u. \A x \in Exports : export[x].begun \in Nat /\ export[x].at \in Nat
    BY <1>t DEF Records
<1>1. ASSUME NEW d \in Deletions, RequestTenantDeletion(d) \/ CancelTenantDeletion(d) PROVE ArchivesOK'
    BY <1>1, ArchivesKept DEF RequestTenantDeletion, CancelTenantDeletion, ArchivesOK
<1>2. ASSUME NEW d \in Deletions, NEW force \in BOOLEAN, NEW without \in BOOLEAN,
             ExecuteTenantDeletion(d, force, without) \/ ExecutionDies(d, force, without)
      PROVE  ArchivesOK'
  <2>1. /\ UNCHANGED <<export, written, now>> /\ MayExecute(d, force, without)
        /\ Removal(d, force, without)
      BY <1>2 DEF ExecuteTenantDeletion, ExecutionDies
  <2> QED BY <2>1, ArchivesKept, RemovalNames DEF ArchivesOK
<1>3. ASSUME NEW x \in Exports, BeginExport(x) PROVE ArchivesOK'
  <2>1. /\ UNCHANGED <<written, now, cause>> /\ Present' = Present /\ export[x].st = "none"
        /\ export' = [export EXCEPT ![x] = [@ EXCEPT !.st = "reading", !.begun = now, !.has = Present]]
      BY <1>3 DEF BeginExport, Present
  <2>2. /\ export'[x].st = "reading" /\ export'[x].begun = now /\ export'[x].has = Present
        /\ \A y \in Exports \ {x} : export'[y] = export[y]
      BY <1>t, <2>1 DEF Records
  <2>3. ASSUME NEW y \in Exports PROVE ExportMisses(y)'
    <3>1. CASE y = x
        BY <1>t, <2>1, <2>2, <3>1 DEF ExportMisses
    <3>2. CASE y # x
        BY <2>1, <2>2, <3>2 DEF ArchivesOK, ExportMisses
    <3> QED BY <3>1, <3>2
  <2>4. cause.how = "deleted" /\ cause.export # "none" => export'[cause.export] = export[cause.export]
      BY <2>1, <2>2 DEF ArchivesOK, DeletionInv, CauseOK
  <2> QED BY <2>1, <2>3, <2>4 DEF ArchivesOK
<1>4. ASSUME NEW x \in Exports, NEW b \in BOOLEAN, RecordExport(x, b) PROVE ArchivesOK'
  <2>1. PICK read \in SUBSET Present :
          /\ b => export[x].has \subseteq read
          /\ export' = [export EXCEPT ![x] = [@ EXCEPT !.st = "recorded", !.at = now, !.has = read,
                                               !.whole = b, !.complete = b]]
      BY <1>4 DEF RecordExport
  <2>2. UNCHANGED <<written, now, cause>> /\ Present' = Present /\ export[x].st = "reading"
      BY <1>4 DEF RecordExport, Present
  <2>3. /\ export'[x].st = "recorded" /\ export'[x].begun = export[x].begun /\ export'[x].at = now
        /\ export'[x].has = read /\ export'[x].whole = b /\ export'[x].complete = b
        /\ \A y \in Exports \ {x} : export'[y] = export[y]
      BY <1>t, <2>1 DEF Records
  <2>4. ASSUME NEW y \in Exports PROVE ExportMisses(y)'
    <3>1. CASE y = x
      <4>1. ASSUME b, NEW i \in Present \ read PROVE written[i] \in export[x].begun .. now
        <5>1. i \in Present \ export[x].has /\ i \in Writings
            BY <1>t, <2>1, <4>1
        <5>2. written[i] >= export[x].begun /\ written[i] <= now
            BY <2>2, <5>1 DEF ArchivesOK, ExportMisses
        <5> QED BY <1>t, <1>u, <5>1, <5>2
      <4> QED BY <1>t, <2>2, <2>3, <3>1, <4>1 DEF ExportMisses
    <3>2. CASE y # x
        BY <2>2, <2>3, <3>2 DEF ArchivesOK, ExportMisses
    <3> QED BY <3>1, <3>2
  <2>5. cause.how = "deleted" /\ cause.export # "none" => export'[cause.export] = export[cause.export]
      BY <2>2, <2>3 DEF ArchivesOK, DeletionInv, CauseOK
  <2> QED BY <2>2, <2>4, <2>5 DEF ArchivesOK
<1>5. ASSUME NEW x \in Exports, NEW b \in BOOLEAN, VerifyExport(x, b) PROVE ArchivesOK'
  <2>1. /\ UNCHANGED <<written, now, cause>> /\ Present' = Present
        /\ export[x].st \in {"recorded", "verified"}
        /\ export' = [export EXCEPT ![x] = [@ EXCEPT !.st = "verified", !.complete = Verdict(x, b)]]
      BY <1>5 DEF VerifyExport, Present
  <2>2. /\ export'[x].st = "verified" /\ export'[x].begun = export[x].begun
        /\ export'[x].at = export[x].at /\ export'[x].has = export[x].has
        /\ export'[x].whole = export[x].whole /\ export'[x].complete = Verdict(x, b)
        /\ \A y \in Exports \ {x} : export'[y] = export[y]
      BY <1>t, <2>1 DEF Records
  <2>3. ASSUME NEW y \in Exports PROVE ExportMisses(y)'
    <3>1. CASE y = x
        BY <2>1, <2>2, <3>1 DEF ArchivesOK, ExportMisses, Verdict
    <3>2. CASE y # x
        BY <2>1, <2>2, <3>2 DEF ArchivesOK, ExportMisses
    <3> QED BY <3>1, <3>2
  <2>4. ASSUME cause.how = "deleted", cause.export # "none"
        PROVE  LET y == export'[cause.export] IN y.st = "verified" /\ y.whole /\ y.at >= cause.asked
      BY <2>2, <2>4 DEF ArchivesOK, DeletionInv, CauseOK
  <2> QED BY <2>1, <2>3, <2>4 DEF ArchivesOK
<1>6. ASSUME NEW i \in Writings, WriteItem(i) PROVE ArchivesOK'
  <2>1. /\ UNCHANGED <<export, now, cause>> /\ written' = [written EXCEPT ![i] = now]
        /\ written[i] = Never
      BY <1>6 DEF WriteItem
  <2>2. Present' \subseteq Present \cup {i} /\ written'[i] = now
        /\ \A j \in Writings \ {i} : written'[j] = written[j]
      BY <1>t, <2>1 DEF Present, DeletionInv, DeletionTypeOK
  <2>3. i \notin Present
      BY <2>1 DEF Present
  <2>4. ASSUME NEW x \in Exports PROVE ExportMisses(x)'
      BY <1>t, <1>u, <2>1, <2>2, <2>3 DEF ArchivesOK, ExportMisses
  <2>5. \A j \in Present' : written'[j] <= now'
      BY <1>t, <2>1, <2>2, <2>3 DEF ArchivesOK
  <2> QED BY <2>1, <2>4, <2>5 DEF ArchivesOK
<1>7. CASE TrashSomething
    BY <1>7, ArchivesKept DEF TrashSomething, ArchivesOK
<1>8. CASE HalfDayPasses
    BY <1>8, ArchivesKept DEF HalfDayPasses, ArchivesOK
<1>9. CASE UNCHANGED deletionVars
    BY <1>9, ArchivesKept DEF deletionVars, ArchivesOK
<1> QED BY <1>1, <1>2, <1>3, <1>4, <1>5, <1>6, <1>7, <1>8, <1>9 DEF DeletionNext

\* A tenant deleted without a waiver is in the archive its report names, up to what was
\* written while that was read or after the deletion was asked for
\* (tenant-lifecycle.mjs:349-374, tenant-export.mjs:345-480).
THEOREM SurvivesHolds == DeletionSpec => []SurvivesDeletion
<1>1. DeletionSpec => []ArchivesOK
    BY ArchivesInitOK, ArchivesStepOK, DeletionInvariance, PTL DEF DeletionSpec
<1> QED BY <1>1, ArchivesSave, DeletionInvariance, PTL

\* An unhurried deletion waits to the day it is due (tenant-lifecycle.mjs:364).
THEOREM DayHolds == DeletionSpec => []NotBeforeItsDay
<1>1. DeletionInit => NotBeforeItsDay
    BY DEF DeletionInit, NoCause, NotBeforeItsDay
<1>2. ASSUME DeletionInv, NotBeforeItsDay, [DeletionNext]_deletionVars PROVE NotBeforeItsDay'
  <2>1. CASE cause' = cause
      BY <1>2, <2>1 DEF NotBeforeItsDay
  <2>2. CASE cause' # cause
    <3>1. PICK d \in Deletions, force \in BOOLEAN, without \in BOOLEAN :
            MayExecute(d, force, without) /\ Removal(d, force, without)
        BY <1>2, <2>2, CauseByRemoval
    <3>2. deletion[d].due \in Nat /\ now \in Nat
        BY <1>2, TenantDeletionAssumption DEF DeletionInv, DeletionTypeOK
    <3>3. /\ cause'.forced = force
          /\ cause'.early = IF now < deletion[d].due THEN deletion[d].due - now ELSE 0
        BY <2>2, <3>1 DEF Removal
    <3>4. ASSUME ~force PROVE cause'.early <= 1
        BY <3>1, <3>2, <3>3, <3>4, WithinTheDay DEF MayExecute, Due
    <3> QED BY <3>3, <3>4 DEF NotBeforeItsDay
  <2> QED BY <2>1, <2>2
<1> QED BY <1>1, <1>2, DeletionInvariance, PTL DEF DeletionSpec

\* A deletion that was reported complete has left no row the tenant owned, then
\* or later (tenant-lifecycle.mjs:390-416).
THEOREM ReportIsTrueHolds == DeletionSpec => []ReportIsTrue
<1>1. DeletionInit => ReportIsTrue
    BY DEF DeletionInit, NoDeletion, ReportIsTrue
<1>2. ASSUME DeletionInv, ReportIsTrue, [DeletionNext]_deletionVars PROVE ReportIsTrue'
  <2> USE <1>2 DEF DeletionInv, DeletionTypeOK, ReportIsTrue
  <2>1. ASSUME NEW d \in Deletions, RequestTenantDeletion(d) \/ CancelTenantDeletion(d)
        PROVE  ReportIsTrue'
      BY <2>1 DEF RequestTenantDeletion, CancelTenantDeletion
  <2>2. ASSUME NEW d \in Deletions, NEW force \in BOOLEAN, NEW without \in BOOLEAN,
               ExecuteTenantDeletion(d, force, without)
        PROVE  ReportIsTrue'
      BY <2>2, ZenonT(30) DEF ExecuteTenantDeletion, Removal, CensusClean, Owned
  <2>3. ASSUME NEW d \in Deletions, NEW force \in BOOLEAN, NEW without \in BOOLEAN,
               ExecutionDies(d, force, without)
        PROVE  ReportIsTrue'
      BY <2>3 DEF ExecutionDies, Removal
  <2>4. ASSUME NEW x \in Exports, NEW b \in BOOLEAN,
               BeginExport(x) \/ RecordExport(x, b) \/ VerifyExport(x, b)
        PROVE  ReportIsTrue'
      BY <2>4 DEF BeginExport, RecordExport, VerifyExport
  <2>5. CASE TrashSomething \/ HalfDayPasses \/ (\E i \in Writings : WriteItem(i)) \/ UNCHANGED deletionVars
      BY <2>5 DEF TrashSomething, HalfDayPasses, WriteItem, deletionVars
  <2> QED BY <2>1, <2>2, <2>3, <2>4, <2>5 DEF DeletionNext
<1> QED BY <1>1, <1>2, DeletionInvariance, PTL DEF DeletionSpec

\* A cancelled deletion removes nothing afterwards, and what was reported is
\* never rewritten (tenant-lifecycle.mjs:299-306, 390-416).
THEOREM ReportsAreFinalHolds == DeletionSpec => ReportsAreFinal
<1>1. ASSUME DeletionInv, [DeletionNext]_deletionVars, NEW d \in Deletions,
             deletion[d].status \in {"cancelled", "executed", "failed"}
      PROVE  deletion'[d] = deletion[d]
  <2> USE <1>1 DEF DeletionInv, DeletionTypeOK
  <2>1. ASSUME NEW e \in Deletions, RequestTenantDeletion(e) \/ CancelTenantDeletion(e)
        PROVE  deletion'[d] = deletion[d]
      BY <2>1 DEF RequestTenantDeletion, CancelTenantDeletion, Cancellable, Scheduled
  <2>2. ASSUME NEW e \in Deletions, NEW force \in BOOLEAN, NEW without \in BOOLEAN,
               ExecuteTenantDeletion(e, force, without) \/ ExecutionDies(e, force, without)
        PROVE  deletion'[d] = deletion[d]
      BY <2>2 DEF ExecuteTenantDeletion, ExecutionDies, MayExecute, Scheduled
  <2>3. ASSUME NEW x \in Exports, NEW b \in BOOLEAN,
               BeginExport(x) \/ RecordExport(x, b) \/ VerifyExport(x, b)
        PROVE  deletion'[d] = deletion[d]
      BY <2>3 DEF BeginExport, RecordExport, VerifyExport
  <2>4. CASE TrashSomething \/ HalfDayPasses \/ (\E i \in Writings : WriteItem(i)) \/ UNCHANGED deletionVars
      BY <2>4 DEF TrashSomething, HalfDayPasses, WriteItem, deletionVars
  <2> QED BY <2>1, <2>2, <2>3, <2>4 DEF DeletionNext
<1>2. DeletionInv /\ [DeletionNext]_deletionVars =>
        [\A d \in Deletions : deletion[d].status \in {"cancelled", "executed", "failed"} =>
           deletion'[d] = deletion[d]]_deletionVars
    BY <1>1
<1> QED BY <1>2, DeletionInvariance, PTL DEF DeletionSpec, ReportsAreFinal

(***************************************************************************)
(* Billing: what the row, the plan and the log say of each other, wherever *)
(* the writes of an event stop.  The grace period is counted in the row    *)
(* and the age of its event in the log; that their sum stays needs to know *)
(* which event wrote the row, and that a row past its last day has been    *)
(* through the days before it.                                             *)
(***************************************************************************)
\* What an event or an operator may say of the subscription.
Sayings ==
    [from : {"provider", "manual"}, ref : Subscriptions \cup {Null}, plan : Plans,
     status : Statuses, reports : BOOLEAN, ends : Subscriptions \cup {Null}]

Asked == ask # Null => ask \in [kind : {"cancel", "resume"}, ref : Subscriptions, acted : BOOLEAN]

BillShape ==
    /\ sent \in Seq(Sayings) /\ Len(sent) <= MaxEvents
    /\ billingRow \in BillingRow \cup {Null}
    /\ log \in [Events -> [outcome : {"unseen", "received", "applied"}, age : Nat]]
    /\ superseded \in [Subscriptions -> {"none", "open", "resolved"}]
    /\ Asked

\* The log knows nothing of what has not been sent, and the age of an event is
\* counted from its arrival.
LogFollows ==
    \A e \in Events :
        /\ Seen(e) => e <= Len(sent)
        /\ ~Seen(e) => log[e].age = 0

\* The row is what the event that wrote it last says, and there is one as soon as
\* an event has been applied.
RowFollows ==
    /\ billingRow # Null => /\ writer \in 1 .. Len(sent) /\ Seen(writer)
                     /\ sent[writer].status = billingRow.status
    /\ billingRow = Null => ask = Null /\ wrote = {}
    /\ \A e \in Events : /\ log[e].outcome = "applied" => e \in wrote
                         /\ e \in wrote => Seen(e)
    /\ writer # 0 => writer \in Events /\ Seen(writer)

WarnedAtTheEnd == GraceRanOut => "final" \in reminded

BillInv == BillShape /\ LogFollows /\ RowFollows /\ BooksAgree /\ WarnedAtTheEnd

LEMMA BillStarts == BillingInit => BillInv
<1> SUFFICES ASSUME BillingInit PROVE BillInv
    OBVIOUS
<1>1. BillShape
    BY EmptySeq, BoundsAssumption DEF BillingInit, BillShape, Asked
<1>2. LogFollows /\ RowFollows
    BY DEF BillingInit, LogFollows, RowFollows, Seen
<1>3. BooksAgree /\ WarnedAtTheEnd
    BY DEF BillingInit, BooksAgree, PlanIsEarned, GraceCountsFromFirstDelivery, NoSubscriptionForgotten,
           WarnedAtTheEnd, Entitled, Entitlement, GraceRanOut
<1> QED BY <1>1, <1>2, <1>3 DEF BillInv

-----------------------------------------------------------------------------
\* The row an event leaves is a row, with the status it says and the whole of
\* the grace period.
LEMMA UpsertIsRow ==
    ASSUME BillShape, NEW c \in Sayings
    PROVE  /\ Upserted(c) \in BillingRow /\ [Upserted(c) EXCEPT !.ends = EndsAfter(c)] \in BillingRow
           /\ EndsAfter(c) \in Subscriptions \cup {Null}
<1>1. KeptRef(c) \in Subscriptions \cup {Null} /\ KeptEnds \in Subscriptions \cup {Null}
    BY DEF BillShape, BillingRow, KeptRef, KeptEnds, Sayings
<1>2. GraceFor(c.status) \in 0 .. GraceDays
    BY DaysAssumption DEF GraceFor
<1>3. EndsAfter(c) \in Subscriptions \cup {Null}
    <2>1. c.ends \in Subscriptions \cup {Null}
        BY DEF Sayings
    <2> QED BY <1>1, <2>1, Zenon DEF EndsAfter
<1>4. Upserted(c) \in BillingRow
    BY <1>1, <1>2 DEF Upserted, BillingRow, Sayings
<1> QED BY <1>3, <1>4 DEF BillingRow

\* What Writes leaves of the row, of the log and of the list of references.
LEMMA WhatWritesLeaves ==
    ASSUME BillInv, NEW e \in Events, NEW c \in Sayings, NEW n \in 1 .. LastWrite, Writes(e, c, n), ~Seen(e)
    PROVE  /\ log' \in [Events -> [outcome : {"unseen", "received", "applied"}, age : Nat]]
           /\ log'[e].outcome = (IF n = LastWrite THEN "applied" ELSE "received") /\ log'[e].age = 0
           /\ \A d \in Events \ {e} : log'[d] = log[d]
           /\ superseded' \in [Subscriptions -> {"none", "open", "resolved"}]
           /\ \A s \in Subscriptions : superseded[s] # "none" => superseded'[s] # "none"
           /\ wrote' = IF n < 3 THEN wrote ELSE wrote \cup {e}
           /\ billingRow' \in BillingRow \cup {Null}
           /\ n < 3 => billingRow' = billingRow /\ plan' = plan /\ writer' = writer /\ reminded' = reminded
           /\ n >= 3 => /\ billingRow' # Null /\ writer' = e
                        /\ billingRow'.status = c.status /\ billingRow'.ref = KeptRef(c) /\ billingRow'.grace = GraceFor(c.status)
                        /\ Supersedes(c) => superseded'[billingRow.ref] # "none"
           /\ n \in 3 .. 4 => plan' = plan
           /\ n >= 5 => plan' = Entitlement(billingRow')
<1> USE DEF LastWrite
<1>1. BillShape /\ LogFollows
    BY DEF BillInv
<1>2. /\ log' \in [Events -> [outcome : {"unseen", "received", "applied"}, age : Nat]]
      /\ log'[e].outcome = (IF n = LastWrite THEN "applied" ELSE "received") /\ log'[e].age = 0
      /\ \A d \in Events \ {e} : log'[d] = log[d]
    BY <1>1 DEF Writes, BillShape, LogFollows
<1>3. /\ superseded' \in [Subscriptions -> {"none", "open", "resolved"}]
      /\ \A s \in Subscriptions : superseded[s] # "none" => superseded'[s] # "none"
      /\ n >= 3 /\ Supersedes(c) => superseded'[billingRow.ref] # "none"
    BY <1>1 DEF Writes, BillShape, Filed, Supersedes, BillingRow
<1>4. /\ n < 3 => billingRow' = billingRow /\ plan' = plan /\ writer' = writer /\ reminded' = reminded
      /\ n \in 3 .. 4 => plan' = plan
      /\ n >= 5 => plan' = Entitlement(billingRow')
      /\ n >= 3 => writer' = e
    BY DEF Writes
<1>8. wrote' = IF n < 3 THEN wrote ELSE wrote \cup {e}
    BY DEF Writes
<1>5. n >= 3 => billingRow' \in {Upserted(c), [Upserted(c) EXCEPT !.ends = EndsAfter(c)]}
    BY DEF Writes
<1>6. /\ billingRow' \in BillingRow \cup {Null}
      /\ n >= 3 => billingRow' # Null
    <2>1. n < 3 => billingRow' \in BillingRow \cup {Null}
        BY <1>1, <1>4 DEF BillShape
    <2>2. n >= 3 => billingRow' \in BillingRow
        BY <1>1, <1>5, UpsertIsRow
    <2> QED BY <2>1, <2>2, NullAssumption
<1>7. n >= 3 => billingRow'.status = c.status /\ billingRow'.ref = KeptRef(c) /\ billingRow'.grace = GraceFor(c.status)
    BY <1>5 DEF Upserted
<1> QED BY <1>2, <1>3, <1>4, <1>6, <1>7, <1>8

\* An event is applied, or cut short, whenever it arrives.
LEMMA WritesKeep ==
    ASSUME BillInv, NEW e \in Events, NEW c \in Sayings, NEW n \in 1 .. LastWrite, Writes(e, c, n), ~Seen(e),
           sent' \in Seq(Sayings), Len(sent') <= MaxEvents, e <= Len(sent'), Len(sent) <= Len(sent'),
           sent'[e] = c, \A d \in 1 .. Len(sent) : sent'[d] = sent[d], ask' \in {ask, Null},
           \A d \in 1 .. Len(sent') : d # e => d <= Len(sent)
    PROVE  BillInv'
<1> USE DEF LastWrite
<1>0. BillShape /\ LogFollows /\ RowFollows /\ PlanIsEarned /\ GraceCountsFromFirstDelivery /\ NoSubscriptionForgotten
      /\ WarnedAtTheEnd
    BY DEF BillInv, BooksAgree
<1>1. Len(sent) \in Nat /\ Len(sent') \in Nat /\ Events = 1 .. MaxEvents /\ MaxEvents \in Nat
    BY <1>0, LenProperties, BoundsAssumption DEF BillShape, Events
<1>2. /\ log' \in [Events -> [outcome : {"unseen", "received", "applied"}, age : Nat]]
      /\ log'[e].outcome = (IF n = LastWrite THEN "applied" ELSE "received") /\ log'[e].age = 0
      /\ \A d \in Events \ {e} : log'[d] = log[d]
      /\ superseded' \in [Subscriptions -> {"none", "open", "resolved"}]
      /\ \A s \in Subscriptions : superseded[s] # "none" => superseded'[s] # "none"
      /\ wrote' = IF n < 3 THEN wrote ELSE wrote \cup {e}
      /\ billingRow' \in BillingRow \cup {Null}
    BY WhatWritesLeaves
<1>3. /\ n < 3 => billingRow' = billingRow /\ plan' = plan /\ writer' = writer /\ reminded' = reminded
      /\ n >= 3 => /\ billingRow' # Null /\ writer' = e
                   /\ billingRow'.status = c.status /\ billingRow'.ref = KeptRef(c) /\ billingRow'.grace = GraceFor(c.status)
                   /\ Supersedes(c) => superseded'[billingRow.ref] # "none"
      /\ n \in 3 .. 4 => plan' = plan
      /\ n >= 5 => plan' = Entitlement(billingRow')
    BY WhatWritesLeaves
<1>4. BillShape'
    BY <1>0, <1>2 DEF BillShape, Asked
<1>5. LogFollows'
    <2> SUFFICES ASSUME NEW d \in Events
                 PROVE  (Seen(d)' => d <= Len(sent')) /\ (~Seen(d)' => log'[d].age = 0)
        BY DEF LogFollows
    <2>1. CASE d = e
        BY <1>2, <2>1
    <2>2. CASE d # e
        <3>0. d \in Nat
            BY <1>1
        <3>1. log'[d] = log[d]
            BY <1>2, <2>2
        <3>2. (Seen(d) => d <= Len(sent)) /\ (~Seen(d) => log[d].age = 0)
            BY <1>0 DEF LogFollows
        <3>3. d <= Len(sent) => d <= Len(sent')
            BY <1>1, <3>0
        <3> QED BY <3>1, <3>2, <3>3 DEF Seen
    <2> QED BY <2>1, <2>2
<1>6. RowFollows'
    <2>1. Seen(e)' /\ \A d \in Events : Seen(d) => Seen(d)'
        BY <1>2 DEF Seen
    <2>4. \A d \in Events : (log'[d].outcome = "applied" => d \in wrote') /\ (d \in wrote' => Seen(d)')
        <3>1. log'[e].outcome = "applied" => e \in wrote'
            BY <1>2
        <3>2. \A d \in Events \ {e} : d \in wrote' <=> d \in wrote
            BY <1>2
        <3>3. e \in wrote' => Seen(e)'
            BY <2>1
        <3>4. \A d \in Events \ {e} : /\ log'[d] = log[d] /\ (log[d].outcome = "applied" => d \in wrote)
                                   /\ (d \in wrote => Seen(d))
            BY <1>0, <1>2 DEF RowFollows
        <3> QED BY <2>1, <3>1, <3>2, <3>3, <3>4
    <2>2. CASE n < 3
        <3>1. billingRow' = billingRow /\ writer' = writer /\ log'[e].outcome = "received"
            BY <1>2, <1>3, <2>2
        <3>2. billingRow # Null => writer \in 1 .. Len(sent') /\ Seen(writer)' /\ sent'[writer].status = billingRow.status
            <4>1. billingRow # Null => writer \in 1 .. Len(sent) /\ writer \in Events
                BY <1>0, <1>1 DEF RowFollows
            <4>2. billingRow # Null => sent'[writer] = sent[writer] /\ writer \in 1 .. Len(sent')
                BY <1>1, <4>1
            <4> QED BY <1>0, <2>1, <3>1, <4>1, <4>2 DEF RowFollows
        <3>3. billingRow = Null => ask' = Null /\ wrote' = {}
            BY <1>0, <1>2, <2>2 DEF RowFollows
        <3>4. writer # 0 => writer \in Events /\ Seen(writer)'
            BY <1>0, <2>1, <3>1 DEF RowFollows
        <3> QED BY <2>4, <3>1, <3>2, <3>3, <3>4 DEF RowFollows
    <2>3. CASE n >= 3
        BY <1>1, <1>3, <2>1, <2>3, <2>4 DEF RowFollows
    <2> QED BY <2>2, <2>3
<1>7. PlanIsEarned'
    <2>1. CASE n < 3
        <3>1. writer # 0 => writer \in Events \ {e}
            BY <1>0 DEF RowFollows
        <3> QED BY <1>0, <1>2, <1>3, <2>1, <3>1 DEF PlanIsEarned, Entitled, Entitlement, GraceRanOut
    <2>2. CASE n \in 3 .. 4
        <3>1. e # 0 /\ log'[writer'].outcome = "received" /\ writer' # 0
            BY <1>1, <1>2, <1>3, <2>2
        <3> QED BY <3>1 DEF PlanIsEarned
    <2>3. CASE n >= 5
        BY <1>3, <2>3 DEF PlanIsEarned, Entitled
    <2> QED BY <2>1, <2>2, <2>3
<1>8. GraceCountsFromFirstDelivery'
    <2>1. CASE n < 3
        <3>1. billingRow # Null => writer \in 1 .. Len(sent) /\ writer # e /\ writer \in Events
            BY <1>0, <1>1 DEF RowFollows, BillShape
        <3> QED BY <1>0, <1>2, <1>3, <2>1, <3>1 DEF GraceCountsFromFirstDelivery
    <2>2. CASE n >= 3
        BY <1>2, <1>3, <2>2, DaysAssumption DEF GraceCountsFromFirstDelivery, GraceFor
    <2> QED BY <2>1, <2>2
<1>9. NoSubscriptionForgotten'
    <2> SUFFICES ASSUME NEW d \in 1 .. Len(sent'), Seen(d)', sent'[d].ref # Null, ~CutShort(d)'
                 PROVE  \/ billingRow' # Null /\ billingRow'.ref = sent'[d].ref
                        \/ superseded'[sent'[d].ref] # "none"
        BY DEF NoSubscriptionForgotten
    <2>1. CASE d = e
        <3>1. n >= 3
            BY <1>0, <1>2, <2>1 DEF CutShort, RowFollows
        <3> QED BY <1>3, <2>1, <3>1 DEF KeptRef
    <2>2. CASE d # e
        <3>1. d \in 1 .. Len(sent) /\ d \in Events /\ sent'[d] = sent[d] /\ log'[d] = log[d]
              /\ (d \in wrote' <=> d \in wrote)
            BY <1>1, <1>2, <2>2
        <3>6. Seen(d) /\ ~CutShort(d)
            BY <3>1 DEF Seen, CutShort
        <3>7. d \in wrote
            <4>1. log[d].outcome \in {"unseen", "received", "applied"}
                BY <1>0, <3>1 DEF BillShape
            <4> QED BY <1>0, <3>1, <3>6, <4>1 DEF Seen, CutShort, RowFollows
        <3>2. \/ billingRow # Null /\ billingRow.ref = sent[d].ref
              \/ superseded[sent[d].ref] # "none"
            BY <1>0, <3>1, <3>6 DEF NoSubscriptionForgotten
        <3>3. billingRow # Null /\ sent[d].ref \in Subscriptions
            <4>1. sent[d] \in Sayings
                BY <1>0, <3>1, ElementOfSeq DEF BillShape
            <4> QED BY <1>0, <3>1, <3>7, <4>1 DEF RowFollows, Sayings
        <3>4. CASE superseded[sent[d].ref] # "none"
            BY <1>2, <3>1, <3>3, <3>4
        <3>5. CASE billingRow.ref = sent[d].ref
            <4>1. CASE n < 3
                BY <1>3, <3>1, <3>3, <3>5, <4>1
            <4>2. CASE n >= 3
                BY <1>3, <3>1, <3>3, <3>5, <4>2 DEF KeptRef, Supersedes
            <4> QED BY <4>1, <4>2
        <3> QED BY <3>2, <3>4, <3>5
    <2> QED BY <2>1, <2>2
<1>10. WarnedAtTheEnd'
    <2>1. CASE n < 3
        BY <1>0, <1>3, <2>1 DEF WarnedAtTheEnd, GraceRanOut
    <2>2. CASE n >= 3
        BY <1>3, <2>2, DaysAssumption DEF WarnedAtTheEnd, GraceRanOut, GraceFor
    <2> QED BY <2>1, <2>2
<1> QED BY <1>4, <1>5, <1>6, <1>7, <1>8, <1>9, <1>10 DEF BillInv, BooksAgree

LEMMA IngestKeeps ==
    ASSUME BillInv, NEW e \in Events, NEW c \in Sayings, Ingest(e, c), ~Seen(e),
           sent' \in Seq(Sayings), Len(sent') <= MaxEvents, e <= Len(sent'), Len(sent) <= Len(sent'),
           sent'[e] = c, \A d \in 1 .. Len(sent) : sent'[d] = sent[d],
           \A d \in 1 .. Len(sent') : d # e => d <= Len(sent)
    PROVE  BillInv'
<1>1. PICK n \in 1 .. LastWrite : Writes(e, c, n)
    BY DEF Ingest, LastWrite
<1>2. ask' \in {ask, Null}
    BY DEF Ingest
<1> QED BY <1>1, <1>2, WritesKeep

\* The provider says something more of a subscription.
LEMMA SayingKeeps ==
    ASSUME BillInv, NEW c \in Sayings, Room, sent' = Append(sent, c), UNCHANGED <<db, notices, ask, writer, wrote>>
    PROVE  BillInv'
<1>0. BillShape /\ LogFollows /\ RowFollows /\ BooksAgree /\ WarnedAtTheEnd
    BY DEF BillInv
<1>1. /\ sent' \in Seq(Sayings) /\ Len(sent') = Len(sent) + 1 /\ Len(sent) \in Nat
      /\ \A d \in 1 .. Len(sent) : sent'[d] = sent[d]
    BY <1>0, AppendProperties, LenProperties DEF BillShape
<1>2. Len(sent') <= MaxEvents
    BY <1>1, BoundsAssumption DEF Room
<1>3. UNCHANGED <<billingRow, plan, log, superseded, reminded, told, ask, writer, wrote>>
    BY DEF db, notices
<1>4. BillShape' /\ LogFollows'
    BY <1>0, <1>1, <1>2, <1>3, BoundsAssumption DEF BillShape, Asked, LogFollows, Seen, Events
<1>5. RowFollows' /\ WarnedAtTheEnd' /\ PlanIsEarned' /\ GraceCountsFromFirstDelivery'
    BY <1>0, <1>1, <1>3
       DEF RowFollows, Seen, WarnedAtTheEnd, GraceRanOut, BooksAgree, PlanIsEarned, Entitled, Entitlement,
           GraceCountsFromFirstDelivery
<1>6. NoSubscriptionForgotten'
    <2>1. Len(sent) + 1 \in Events /\ ~Seen(Len(sent) + 1)
        BY <1>0, <1>1, <1>2, BoundsAssumption DEF Events, LogFollows
    <2>3. \A d \in 1 .. Len(sent') : Seen(d) => d \in 1 .. Len(sent)
        BY <1>1, <2>1
    <2> QED BY <1>0, <1>1, <1>3, <2>3 DEF BooksAgree, NoSubscriptionForgotten, CutShort, Seen
<1> QED BY <1>4, <1>5, <1>6 DEF BillInv, BooksAgree

\* What touches neither the events nor what was written for them.
LEMMA BesideTheBooks ==
    ASSUME BillInv, UNCHANGED <<sent, log, superseded, writer, wrote, plan, reminded>>,
           billingRow' \in BillingRow \cup {Null}, Asked', billingRow = Null => billingRow' = Null /\ ask' = Null,
           billingRow # Null => billingRow' # Null /\ billingRow'.status = billingRow.status /\ billingRow'.ref = billingRow.ref /\ billingRow'.grace = billingRow.grace
                         /\ billingRow'.plan = billingRow.plan
    PROVE  BillInv'
<1>1. BillShape' /\ LogFollows'
    BY DEF BillInv, BillShape, LogFollows, Seen
<1>2. RowFollows' /\ WarnedAtTheEnd' /\ PlanIsEarned' /\ GraceCountsFromFirstDelivery'
    BY DEF BillInv, RowFollows, Seen, WarnedAtTheEnd, GraceRanOut, BooksAgree, PlanIsEarned, Entitled, Entitlement,
           GraceCountsFromFirstDelivery
<1>3. NoSubscriptionForgotten'
    <2>1. \A d \in 1 .. Len(sent) : billingRow = Null /\ Seen(d) => CutShort(d)
        <3>1. \A d \in 1 .. Len(sent) : d \in Events
            BY BoundsAssumption, LenProperties DEF BillInv, BillShape, Events
        <3>2. \A d \in Events : log[d].outcome \in {"unseen", "received", "applied"}
            BY DEF BillInv, BillShape
        <3> QED BY <3>1, <3>2 DEF BillInv, RowFollows, Seen, CutShort
    <2>2. billingRow # Null => billingRow' # Null /\ billingRow'.ref = billingRow.ref
        OBVIOUS
    <2> QED BY <2>1, <2>2 DEF BillInv, BooksAgree, NoSubscriptionForgotten, Seen, CutShort
<1> QED BY <1>1, <1>2, <1>3 DEF BillInv, BooksAgree

LEMMA BillSteps == BillInv /\ [BillingNext]_billingVars => BillInv'
<1> SUFFICES ASSUME BillInv, [BillingNext]_billingVars PROVE BillInv'
    OBVIOUS
<1>0. BillShape /\ LogFollows /\ RowFollows /\ BooksAgree /\ WarnedAtTheEnd
    BY DEF BillInv
<1>1. ASSUME NEW s \in Subscriptions, CustomerPays(s) \/ ChargeFails(s) \/ PeriodRunsOut(s) PROVE BillInv'
    <2>1. PICK status \in Statuses : Becomes(s, status)
        BY <1>1 DEF CustomerPays, ChargeFails, PeriodRunsOut, Statuses
    <2>2. ProviderEvent(s, status) \in Sayings
        BY DEF ProviderEvent, RazorpayEvent, StripeEvent, Sayings, Plans
    <2> QED BY <2>1, <2>2, SayingKeeps DEF Becomes
<1>2. ASSUME NEW s \in Subscriptions, StartCheckout(s) PROVE BillInv'
    BY <1>0, <1>2, BesideTheBooks DEF StartCheckout, db, notices, BillShape, RowFollows, Asked
<1>3. ASSUME NEW s \in Subscriptions, OperatorResolves(s) PROVE BillInv'
    <2>1. /\ UNCHANGED <<sent, billingRow, plan, log, reminded, ask, writer, wrote>>
          /\ superseded' = [superseded EXCEPT ![s] = "resolved"]
        BY <1>3 DEF OperatorResolves, provider, notices
    <2>2. /\ superseded' \in [Subscriptions -> {"none", "open", "resolved"}]
          /\ \A q \in Subscriptions : superseded[q] # "none" => superseded'[q] # "none"
        BY <1>0, <2>1 DEF BillShape
    <2>3. BillShape' /\ LogFollows' /\ RowFollows' /\ WarnedAtTheEnd'
        BY <1>0, <2>1, <2>2 DEF BillShape, Asked, LogFollows, Seen, RowFollows, WarnedAtTheEnd, GraceRanOut
    <2>4. PlanIsEarned' /\ GraceCountsFromFirstDelivery'
        BY <1>0, <2>1 DEF BooksAgree, PlanIsEarned, Entitled, Entitlement, GraceRanOut, GraceCountsFromFirstDelivery
    <2>5. NoSubscriptionForgotten'
        <3>1. \A d \in 1 .. Len(sent) : sent[d].ref # Null => sent[d].ref \in Subscriptions
            <4>1. \A d \in 1 .. Len(sent) : sent[d] \in Sayings
                BY <1>0, ElementOfSeq DEF BillShape
            <4> QED BY <4>1 DEF Sayings
        <3> QED BY <1>0, <2>1, <2>2, <3>1 DEF BooksAgree, NoSubscriptionForgotten, CutShort, Seen
    <2> QED BY <2>3, <2>4, <2>5 DEF BillInv, BooksAgree
<1>4. ASSUME NEW e \in 1 .. Len(sent), Deliver(e) PROVE BillInv'
    <2>1. sent[e] \in Sayings /\ Len(sent) \in Nat /\ Len(sent) <= MaxEvents
        BY <1>0, ElementOfSeq, LenProperties DEF BillShape
    <2>2. e \in Events
        BY <2>1, BoundsAssumption DEF Events
    <2>3. UNCHANGED sent /\ Ingest(e, sent[e]) /\ ~Seen(e)
        BY <1>4 DEF Deliver, provider
    <2> QED BY <1>0, <2>1, <2>2, <2>3, IngestKeeps DEF BillShape
<1>5. ASSUME NEW status \in Statuses, OperatorRecords(status) PROVE BillInv'
    <2> DEFINE c == Manual(status)
               e == Len(sent) + 1
    <2>1. Room /\ sent' = Append(sent, c) /\ Ingest(e, c)
        BY <1>5 DEF OperatorRecords
    <2>2. c \in Sayings
        BY DEF Manual, Sayings, Plans
    <2> HIDE DEF c
    <2>3. /\ sent' \in Seq(Sayings) /\ Len(sent') = e /\ Len(sent) \in Nat /\ sent'[e] = c
          /\ \A d \in 1 .. Len(sent) : sent'[d] = sent[d]
        BY <1>0, <2>1, <2>2, AppendProperties, LenProperties DEF BillShape
    <2>4. Len(sent') <= MaxEvents /\ e \in Events /\ ~Seen(e)
        BY <1>0, <2>1, <2>3, BoundsAssumption DEF Room, Events, LogFollows
    <2> QED BY <2>1, <2>2, <2>3, <2>4, IngestKeeps
<1>6. CASE RequestCancellation \/ ResumeSubscription
    <2>1. billingRow # Null /\ billingRow.ref \in Subscriptions /\ UNCHANGED <<sent, billingRow, plan, log, superseded, reminded, writer, wrote>>
        BY <1>0, <1>6 DEF RequestCancellation, ResumeSubscription, Actionable, provider, db, notices, BillShape, BillingRow
    <2>2. Asked'
        <3>1. \/ ask' = [kind |-> "cancel", ref |-> billingRow.ref, acted |-> FALSE]
              \/ ask' = [kind |-> "resume", ref |-> billingRow.ref, acted |-> FALSE]
            BY <1>6 DEF RequestCancellation, ResumeSubscription
        <3>2. /\ [kind |-> "cancel", ref |-> billingRow.ref, acted |-> FALSE]
                    \in [kind : {"cancel", "resume"}, ref : Subscriptions, acted : BOOLEAN]
              /\ [kind |-> "resume", ref |-> billingRow.ref, acted |-> FALSE]
                    \in [kind : {"cancel", "resume"}, ref : Subscriptions, acted : BOOLEAN]
            BY <2>1
        <3> QED BY <3>1, <3>2, Zenon DEF Asked
    <2> QED BY <1>0, <2>1, <2>2, BesideTheBooks DEF BillShape
<1>7. CASE ProviderActs \/ ProviderFails
    <2>1. UNCHANGED <<sent, billingRow, plan, log, superseded, reminded, writer, wrote>> /\ (billingRow = Null => ask' = Null)
        BY <1>0, <1>7 DEF ProviderActs, ProviderFails, provider, db, notices, RowFollows
    <2>2. Asked'
        BY <1>0, <1>7 DEF ProviderActs, ProviderFails, BillShape, Asked
    <2> QED BY <1>0, <2>1, <2>2, BesideTheBooks DEF BillShape
<1>8. CASE ProviderAnswers
    <2>1. ask # Null /\ billingRow # Null /\ billingRow \in BillingRow /\ ask.ref \in Subscriptions
        BY <1>0, <1>8 DEF ProviderAnswers, RowFollows, BillShape, Asked
    <2>2. /\ UNCHANGED <<sent, plan, log, superseded, reminded, writer, wrote>> /\ ask' = Null
          /\ \E x \in Subscriptions \cup {Null} : billingRow' = [billingRow EXCEPT !.ends = x]
        BY <1>8, <2>1 DEF ProviderAnswers, provider, notices
    <2>3. billingRow' \in BillingRow /\ billingRow'.status = billingRow.status /\ billingRow'.ref = billingRow.ref /\ billingRow'.grace = billingRow.grace /\ billingRow'.plan = billingRow.plan
        BY <2>1, <2>2 DEF BillingRow
    <2> QED BY <2>1, <2>2, <2>3, BesideTheBooks, NullAssumption DEF Asked
<1>9. CASE ExpireGracePeriods
    <2>1. UNCHANGED <<sent, billingRow, log, superseded, reminded, ask, writer, wrote>> /\ plan' = "free" /\ GraceRanOut
        BY <1>9 DEF ExpireGracePeriods, provider
    <2>2. PlanIsEarned'
        BY <2>1 DEF PlanIsEarned, Entitled, Entitlement, GraceRanOut
    <2>3. BillShape' /\ LogFollows' /\ RowFollows' /\ WarnedAtTheEnd' /\ GraceCountsFromFirstDelivery'
          /\ NoSubscriptionForgotten'
        BY <1>0, <2>1 DEF BillShape, Asked, LogFollows, Seen, RowFollows, WarnedAtTheEnd, GraceRanOut, BooksAgree,
                          GraceCountsFromFirstDelivery, NoSubscriptionForgotten, CutShort, Seen
    <2> QED BY <2>2, <2>3 DEF BillInv, BooksAgree
<1>10. CASE RunDunning
    <2>1. UNCHANGED <<sent, billingRow, plan, log, superseded, ask, writer, wrote>> /\ reminded \subseteq reminded'
        BY <1>10 DEF RunDunning, provider, db
    <2>2. BillShape' /\ LogFollows' /\ RowFollows' /\ WarnedAtTheEnd'
        BY <1>0, <2>1 DEF BillShape, Asked, LogFollows, Seen, RowFollows, WarnedAtTheEnd, GraceRanOut
    <2>3. BooksAgree'
        BY <1>0, <2>1 DEF BooksAgree, PlanIsEarned, Entitled, Entitlement, GraceRanOut,
                          GraceCountsFromFirstDelivery, NoSubscriptionForgotten, CutShort, Seen
    <2> QED BY <2>2, <2>3 DEF BillInv
<1>11. CASE DayPasses
    <2>1. /\ billingRow # Null /\ billingRow.status = "past_due" /\ billingRow.grace > 0 /\ billingRow' = [billingRow EXCEPT !.grace = @ - 1]
          /\ log' = [e \in Events |-> [log[e] EXCEPT !.age = Older(e)]]
          /\ UNCHANGED <<sent, plan, superseded, reminded, ask, writer, wrote>>
        BY <1>11 DEF DayPasses, provider, notices
    <2>2. billingRow \in BillingRow /\ billingRow.grace \in 0 .. GraceDays /\ GraceDays \in Nat
        BY <1>0, <2>1, DaysAssumption DEF BillShape, BillingRow
    <2>3. /\ billingRow' \in BillingRow /\ billingRow' # Null /\ billingRow'.grace = billingRow.grace - 1
          /\ billingRow'.status = "past_due" /\ billingRow'.ref = billingRow.ref /\ billingRow'.plan = billingRow.plan
        BY <2>1, <2>2, NullAssumption DEF BillingRow
    <2>4. \A e \in Events : log[e].age \in Nat /\ Older(e) \in Nat /\ (~Seen(e) => Older(e) = log[e].age)
        BY <1>0 DEF BillShape, Older
    <2>5. /\ log' \in [Events -> [outcome : {"unseen", "received", "applied"}, age : Nat]]
          /\ \A e \in Events : log'[e].outcome = log[e].outcome /\ log'[e].age = Older(e)
        BY <1>0, <2>1, <2>4, ZenonT(60) DEF BillShape
    <2>6. BillShape' /\ LogFollows' /\ RowFollows'
        BY <1>0, <2>1, <2>3, <2>4, <2>5 DEF BillShape, Asked, LogFollows, Seen, RowFollows
    <2>7. writer \in 1 .. Len(sent) /\ writer \in Events /\ Seen(writer) /\ sent[writer].status = "past_due"
        BY <1>0, <2>1 DEF RowFollows, BillShape
    <2>8. PlanIsEarned'
        <3> SUFFICES ASSUME billingRow'.grace > 0, plan # billingRow.plan PROVE log'[writer].outcome = "received"
            BY <2>1, <2>2, <2>3, <2>7 DEF PlanIsEarned, Entitled, Entitlement, GraceRanOut, Events
        <3>1. Entitled = billingRow.plan /\ ~GraceRanOut
            BY <2>1, <2>2 DEF Entitled, Entitlement, GraceRanOut
        <3> QED BY <1>0, <2>5, <2>7, <3>1 DEF BooksAgree, PlanIsEarned
    <2>9. GraceCountsFromFirstDelivery'
        <3>1. billingRow.grace + log[writer].age = GraceDays
            BY <1>0, <2>1 DEF BooksAgree, GraceCountsFromFirstDelivery
        <3>2. log'[writer].age = log[writer].age + 1
            BY <2>1, <2>2, <2>4, <2>5, <2>7, <3>1 DEF Older
        <3> QED BY <2>1, <2>2, <2>3, <2>4, <2>7, <3>1, <3>2 DEF GraceCountsFromFirstDelivery
    <2>10. NoSubscriptionForgotten'
        <3>1. \A d \in 1 .. Len(sent) : d \in Events
            BY <1>0, LenProperties, BoundsAssumption DEF BillShape, Events
        <3> QED BY <1>0, <2>1, <2>3, <2>5, <3>1 DEF BooksAgree, NoSubscriptionForgotten, CutShort, Seen
    <2>11. WarnedAtTheEnd'
        <3> SUFFICES ASSUME billingRow'.grace = 0 PROVE "final" \in reminded
            BY <2>1 DEF WarnedAtTheEnd, GraceRanOut
        <3>1. billingRow.grace = 1
            BY <2>2, <2>3
        <3>2. DunningStage = "final"
            BY <2>1, <3>1, DaysAssumption DEF DunningStage
        <3>3. DunningStage \in {Null} \cup reminded
            BY <1>11 DEF DayPasses, WorkersAreDone
        <3> QED BY <3>2, <3>3, NullAssumption
    <2> QED BY <2>6, <2>8, <2>9, <2>10, <2>11 DEF BillInv, BooksAgree
<1>12. CASE UNCHANGED billingVars
    <2>1. UNCHANGED <<sent, billingRow, plan, log, superseded, reminded, ask, writer, wrote>>
        BY <1>12 DEF billingVars, provider, db, notices
    <2> QED BY <1>0, <2>1, BesideTheBooks DEF BillShape, Asked, RowFollows
<1> QED
    BY <1>1, <1>2, <1>3, <1>4, <1>5, <1>6, <1>7, <1>8, <1>9, <1>10, <1>11, <1>12 DEF BillingNext

\* However the provider delivers and wherever ingestBillingEvent is cut off: the plan is
\* what the row entitles to, a redelivery never lengthens the grace, and no subscription
\* of which an event is on record is lost from sight, but by one cut short before the row.
THEOREM BooksHold == BillingSpec => []BooksAgree
<1>1. BillInv /\ [BillingNext]_billingVars => BillInv'
    BY BillSteps
<1>2. BillInv => BooksAgree
    BY DEF BillInv
<1> QED BY BillStarts, <1>1, <1>2, PTL DEF BillingSpec

\* The worker takes a plan away only after the final reminder of that very grace date
\* (billing-dunning.mjs): the windows leave no day without a stage.
THEOREM WarnedHolds == BillingSpec => WarnedBeforeFree
<1>1. BillInv /\ [BillingNext]_billingVars => BillInv'
    BY BillSteps
<1>2. BillInv => [GraceRanOut /\ billingRow' = billingRow /\ plan' # plan => "final" \in reminded]_billingVars
    BY DEF BillInv, WarnedAtTheEnd
<1> QED BY BillStarts, <1>1, <1>2, PTL DEF BillingSpec, WarnedBeforeFree

(***************************************************************************)
(* Credentials: a git command is authorised first and served later.  What  *)
(* was authorised still holds but for the changes recorded since, and that *)
(* is what its child finds.                                                *)
(***************************************************************************)
\* What the authorisation of the command that is starting has left, in the absence of the
\* changes recorded since.
StillAuthorised ==
  ~Quiet =>
    /\ starting.repo \in Works
    /\ "moved" \notin overtaken => place[starting.repo] = starting.name
    /\ overtaken = {} => May(starting.row, starting.repo, starting.write)
    /\ overtaken \cap {"trashed", "moved"} = {} => "trashed" \notin closed[starting.repo]
    /\ starting.write /\ overtaken \cap {"archived", "moved"} = {} => "archived" \notin closed[starting.repo]

CredShape ==
  /\ closed \in [Works -> SUBSET {"archived", "trashed", "disabled"}]
  /\ place \in [Works -> GitPlaces]
  /\ \A a, b \in Works : place[a] = place[b] => a = b
  /\ \A t \in signed : t.repo \in Works

CredInv == CredShape /\ StillAuthorised /\ CredentialsSound

LEMMA CredStarts == CredInit => CredInv
BY DEF CredInit, CredInv, CredShape, StillAuthorised, CredentialsSound, OneHolder, GitServesWhatIsAllowed,
       SignedReachesOnlyItsOwn, Unreached, NoCommand, Quiet

\* The child finds under the name it was given what was authorised, or what has come there since.
LEMMA OpeningIsSound == CredInv /\ OpenDirectory => CredInv'
<1> SUFFICES ASSUME CredInv, OpenDirectory PROVE CredInv'
  OBVIOUS
<1>1. UNCHANGED <<inForce, rights, place, closed, asks, signed>> /\ starting' = NoCommand
  BY DEF OpenDirectory
<1>2. CredShape' /\ StillAuthorised' /\ OneHolder'
  BY <1>1 DEF CredInv, CredShape, StillAuthorised, NoCommand, Quiet, CredentialsSound, OneHolder
<1>3. CASE reached' = Unreached
  BY <1>2, <1>3 DEF CredInv, CredentialsSound, GitServesWhatIsAllowed, SignedReachesOnlyItsOwn, Unreached
<1>4. ASSUME NEW r \in Works, place[r] = starting.name, Reach("git", starting, r) PROVE CredInv'
  <2>1. ~Quiet /\ StillAuthorised
    BY DEF OpenDirectory, CredInv
  <2>2. r = starting.repo \/ "moved" \in overtaken
    BY <1>4, <2>1 DEF StillAuthorised, CredInv, CredShape
  <2>3. /\ reached'.how = "git" /\ reached'.found = r /\ reached'.repo = starting.repo
        /\ reached'.overtaken = overtaken /\ reached'.closed = closed[r]
        /\ reached'.write = starting.write /\ reached'.still = May(starting.row, r, starting.write)
    BY <1>4 DEF Reach
  <2>4. GitServesWhatIsAllowed'
    BY <2>1, <2>2, <2>3 DEF StillAuthorised, GitServesWhatIsAllowed
  <2>5. SignedReachesOnlyItsOwn'
    BY <2>3 DEF SignedReachesOnlyItsOwn
  <2> QED BY <1>2, <2>4, <2>5 DEF CredInv, CredentialsSound
<1> QED BY <1>3, <1>4 DEF OpenDirectory

LEMMA RequestIsSound == ASSUME NEW t \in signed PROVE CredInv /\ LfsRequest(t) => CredInv'
<1> SUFFICES ASSUME CredInv, LfsRequest(t) PROVE CredInv'
  OBVIOUS
<1>1. UNCHANGED <<inForce, rights, place, closed, asks, starting, signed, overtaken>>
  BY DEF LfsRequest
<1>2. CredShape' /\ StillAuthorised' /\ OneHolder'
  BY <1>1 DEF CredInv, CredShape, StillAuthorised, Quiet, CredentialsSound, OneHolder, May, Grants
<1>3. GitServesWhatIsAllowed' /\ SignedReachesOnlyItsOwn'
  BY <1>1 DEF LfsRequest, Reach, GitServesWhatIsAllowed, SignedReachesOnlyItsOwn
<1> QED BY <1>2, <1>3 DEF CredInv, CredentialsSound

\* A step that serves nothing and keeps the shape, the keys and what is starting apart.
LEMMA Unserved ==
  ASSUME CredInv, reached' = Unreached, CredShape', OneHolder', StillAuthorised'
  PROVE  CredInv'
BY DEF CredInv, CredentialsSound, GitServesWhatIsAllowed, SignedReachesOnlyItsOwn, Unreached

\* What ends a credential, moves a right, a name or a door is among what has changed.
LEMMA ChangesAreNoted ==
  ASSUME CredInv, UNCHANGED starting, closed' \in [Works -> SUBSET {"archived", "trashed", "disabled"}],
         NEW what, Overtake(what),
         what = {} => UNCHANGED rights /\ inForce \subseteq inForce',
         "moved" \in what \/ UNCHANGED place,
         \A r \in Works : closed'[r] \ closed[r] \subseteq what
  PROVE  StillAuthorised'
<1> SUFFICES ASSUME ~Quiet PROVE StillAuthorised'
  BY DEF StillAuthorised, Quiet
<1>1. overtaken' = overtaken \cup what
  BY DEF Overtake
<1>2. starting.repo \in Works /\ StillAuthorised
  BY DEF CredInv, StillAuthorised
<1>3. "moved" \notin overtaken' => place'[starting.repo] = starting.name
  BY <1>1, <1>2 DEF StillAuthorised
<1>4. ASSUME overtaken' = {} PROVE May(starting.row, starting.repo, starting.write)'
  BY <1>1, <1>2, <1>4 DEF StillAuthorised, May, Grants
<1>5. ASSUME overtaken' \cap {"trashed", "moved"} = {} PROVE "trashed" \notin closed'[starting.repo]
  BY <1>1, <1>2, <1>5 DEF StillAuthorised
<1>6. ASSUME starting.write, overtaken' \cap {"archived", "moved"} = {} PROVE "archived" \notin closed'[starting.repo]
  BY <1>1, <1>2, <1>6 DEF StillAuthorised
<1> QED BY <1>2, <1>3, <1>4, <1>5, <1>6 DEF StillAuthorised

\* assertFingerprintAvailable, before each row that carries a key.
LEMMA KeysStayApart ==
  ASSUME OneHolder, NEW k, Add(k), k.print = "none" \/ Available(k.print)
  PROVE  OneHolder'
BY DEF OneHolder, Add, Available

LEMMA ChangesAreSound == CredInv /\ ChangeNext /\ reached' = Unreached => CredInv'
<1> SUFFICES ASSUME CredInv, ChangeNext, reached' = Unreached PROVE CredInv'
  OBVIOUS
<1>0. CredShape /\ OneHolder /\ StillAuthorised
  BY DEF CredInv, CredentialsSound
<1>1. ASSUME NEW u \in KeyHolders, NEW f \in Prints, CreateUserSshKey(u, f) PROVE CredInv'
  <2> DEFINE k == [kind |-> "user", of |-> u, print |-> f, write |-> TRUE]
  <2>0. k.print = f /\ Add(k) /\ Available(f)
    BY <1>1 DEF CreateUserSshKey
  <2>1. CredShape' /\ OneHolder'
    <3> HIDE DEF k
    <3>1. OneHolder'
      BY <1>0, <2>0, KeysStayApart
    <3> QED BY <1>0, <1>1, <3>1 DEF CreateUserSshKey, CredShape
  <2>2. StillAuthorised'
    BY <1>0, <1>1 DEF CreateUserSshKey, Add, StillAuthorised, Quiet, May, Grants
  <2> QED BY <2>1, <2>2, Unserved
<1>2. ASSUME NEW u \in KeyHolders, NEW w \in BOOLEAN, CreateAccessToken(u, w) PROVE CredInv'
  <2> DEFINE k == [kind |-> "token", of |-> u, print |-> "none", write |-> w]
  <2>0. k.print = "none" /\ Add(k)
    BY <1>2 DEF CreateAccessToken
  <2>1. CredShape' /\ OneHolder'
    <3> HIDE DEF k
    <3>1. OneHolder'
      BY <1>0, <2>0, KeysStayApart
    <3> QED BY <1>0, <1>2, <3>1 DEF CreateAccessToken, CredShape
  <2>2. StillAuthorised'
    BY <1>0, <1>2 DEF CreateAccessToken, Add, StillAuthorised, Quiet, May, Grants
  <2> QED BY <2>1, <2>2, Unserved
<1>3. ASSUME NEW u \in KeyHolders, NEW r \in Works, AskDeployKey(u, r) PROVE CredInv'
  BY <1>0, <1>3, Unserved DEF AskDeployKey, CredShape, OneHolder, StillAuthorised, Quiet, May, Grants
<1>4. ASSUME NEW u \in KeyHolders, NEW r \in Works, NEW f \in Prints, NEW w \in BOOLEAN, CreateDeployKey(u, r, f, w)
      PROVE  CredInv'
  BY <1>0, <1>4, Unserved DEF CreateDeployKey, Available, Add, CredShape, OneHolder, StillAuthorised, Quiet, May, Grants
<1>5. ASSUME NEW u \in KeyHolders, NEW r \in Works, NEW p \in Rights, RightsChange(u, r, p) PROVE CredInv'
  <2>1. CredShape' /\ OneHolder'
    BY <1>0, <1>5 DEF RightsChange, CredShape, OneHolder
  <2>2. StillAuthorised'
    BY <1>0, <1>5, ChangesAreNoted DEF RightsChange, CredShape
  <2> QED BY <2>1, <2>2, Unserved
<1>6. ASSUME NEW k \in inForce, RevokeOwn(k) \/ \E u \in KeyHolders : RevokeDeployKey(u, k) PROVE CredInv'
  <2>1. CredShape' /\ OneHolder'
    BY <1>0, <1>6 DEF RevokeOwn, RevokeDeployKey, End, CredShape, OneHolder
  <2>2. StillAuthorised'
    BY <1>0, <1>6, ChangesAreNoted DEF RevokeOwn, RevokeDeployKey, CredShape
  <2> QED BY <2>1, <2>2, Unserved
<1>7. ASSUME NEW k \in inForce, NEW r \in Works, NEW w \in BOOLEAN, GitCommand(k, r, w) PROVE CredInv'
  <2>1. CredShape' /\ OneHolder'
    BY <1>0, <1>7 DEF GitCommand, CredShape, OneHolder
  <2>2. StillAuthorised'
    BY <1>0, <1>7 DEF GitCommand, StillAuthorised, May, Grants
  <2> QED BY <2>1, <2>2, Unserved
<1>8. ASSUME NEW k \in inForce, NEW r \in Works, NEW w \in BOOLEAN, LfsAuthenticate(k, r, w) PROVE CredInv'
  BY <1>0, <1>8, Unserved DEF LfsAuthenticate, CredShape, OneHolder, StillAuthorised, Quiet, May, Grants
<1>9. ASSUME NEW t \in signed, SignedTokenEnds(t) PROVE CredInv'
  BY <1>0, <1>9, Unserved DEF SignedTokenEnds, CredShape, OneHolder, StillAuthorised, Quiet, May, Grants
<1>10. ASSUME NEW r \in Works, NEW what \in {"archived", "trashed", "disabled"}, Close(r, what) PROVE CredInv'
  <2>1. CredShape' /\ OneHolder'
    BY <1>0, <1>10 DEF Close, CredShape, OneHolder
  <2>2. StillAuthorised'
    BY <1>0, <1>10, ChangesAreNoted DEF Close, CredShape
  <2> QED BY <2>1, <2>2, Unserved
<1>11. ASSUME NEW r \in Works, NEW what \in {"archived", "trashed", "disabled"}, Reopen(r, what) PROVE CredInv'
  <2>1. CredShape' /\ OneHolder'
    BY <1>0, <1>11 DEF Reopen, CredShape, OneHolder
  <2>2. StillAuthorised'
    BY <1>0, <1>11 DEF Reopen, CredShape, StillAuthorised, Quiet, May, Grants
  <2> QED BY <2>1, <2>2, Unserved
<1>12. ASSUME NEW r \in Works, NEW n \in GitPlaces, TransferTo(r, n) PROVE CredInv'
  <2>1. CredShape' /\ OneHolder'
    BY <1>0, <1>12 DEF TransferTo, CredShape, OneHolder
  <2>2. StillAuthorised'
    BY <1>0, <1>12, ChangesAreNoted DEF TransferTo, CredShape
  <2> QED BY <2>1, <2>2, Unserved
<1> QED
  BY <1>1, <1>2, <1>3, <1>4, <1>5, <1>6, <1>7, <1>8, <1>9, <1>10, <1>11, <1>12 DEF ChangeNext

\* A public key is active once; a git command reaches what it was allowed to, unless what it
\* rests on changed while its child was starting; a signed LFS token reaches nothing that was
\* moved, trashed or disabled since: for any number of users, keys and repositories.
THEOREM CredentialsHold == CredSpec => []CredentialsSound
<1>1. CredInv /\ [CredNext]_credVars => CredInv'
  <2> SUFFICES ASSUME CredInv, [CredNext]_credVars PROVE CredInv'
    OBVIOUS
  <2>1. CASE UNCHANGED credVars
    BY <2>1 DEF credVars, CredInv, CredShape, StillAuthorised, Quiet, May, Grants, CredentialsSound, OneHolder,
                GitServesWhatIsAllowed, SignedReachesOnlyItsOwn
  <2> QED BY <2>1, OpeningIsSound, RequestIsSound, ChangesAreSound DEF CredNext, ReachNext
<1>2. CredInv => CredentialsSound
  BY DEF CredInv
<1> QED BY CredStarts, <1>1, <1>2, PTL DEF CredSpec

(* ObjectStorage: large objects on a volume or in a bucket.                *)

LfsPut ==
  [st : {"idle", "body", "put", "stored", "remove"}, repo : LfsRepos \cup {"none"},
   oid : Oids \cup {"none"}, import : BOOLEAN]

LfsShape ==
  /\ objects \subseteq Oids /\ attached \subseteq LfsRepos \X Oids /\ pending \subseteq LfsRepos \X Oids
  /\ put \in [Puts -> LfsPut] /\ settled \in BOOLEAN

\* What an upload under way says of itself: its object, and where an import may lead.
PutsName ==
  \A u \in Puts : /\ put[u].st # "idle" => put[u].oid \in Oids
                  /\ put[u].import => put[u].repo \in Importable \cup {"none"}

RowsStand == \A p \in attached : p[2] \in objects

\* An upload that has its object in the bucket may yet write the row.
BytesStand ==
  settled => /\ objects \subseteq volume \cup bucket
             /\ \A u \in Puts : put[u].st = "stored" => put[u].oid \in bucket

LfsInv == LfsShape /\ PutsName /\ RowsStand /\ BytesStand /\ QuotaHolds

\* Within its quota a repository takes one object more.
LEMMA OneMoreFits ==
  ASSUME LfsShape, NEW r \in LfsRepos, NEW o \in Oids, WithinQuota(r, o),
         attached' = attached \cup {<<r, o>>}
  PROVE  Cardinality(Of(r, attached)') <= RepoQuota
<1> DEFINE A == Of(r, attached) \cup Of(r, pending) \cup {o}
<1>1. IsFiniteSet(A) /\ Of(r, attached)' \subseteq A
  <2>1. A \subseteq Oids
    BY DEF Of
  <2>2. Of(r, attached)' \subseteq A
    BY DEF Of
  <2> QED BY <2>1, <2>2, FS_Subset, LargeFilesAssumption
<1>2. Cardinality(Of(r, attached)') <= Cardinality(A)
  BY <1>1, FS_Subset
<1>3. Cardinality(A) <= RepoQuota
  BY DEF WithinQuota
<1>4. Cardinality(A) \in Nat /\ Cardinality(Of(r, attached)') \in Nat
  BY <1>1, FS_Subset, FS_CardinalityType
<1> QED BY <1>2, <1>3, <1>4, LargeFilesAssumption

LEMMA FewerFit ==
  ASSUME LfsShape, QuotaHolds, attached' \subseteq attached
  PROVE  QuotaHolds'
<1> SUFFICES ASSUME NEW r \in LfsRepos \ Importable PROVE Cardinality(Of(r, attached)') <= RepoQuota
  BY DEF QuotaHolds
<1>1. Of(r, attached)' \subseteq Of(r, attached) /\ Of(r, attached) \subseteq Oids
  BY DEF Of
<1>2. IsFiniteSet(Of(r, attached))
  BY <1>1, FS_Subset, LargeFilesAssumption
<1>3. /\ Cardinality(Of(r, attached)') <= Cardinality(Of(r, attached))
      /\ Cardinality(Of(r, attached)') \in Nat /\ Cardinality(Of(r, attached)) \in Nat
  BY <1>1, <1>2, FS_Subset, FS_CardinalityType
<1>4. Cardinality(Of(r, attached)) <= RepoQuota
  BY DEF QuotaHolds
<1> QED BY <1>3, <1>4, LargeFilesAssumption

\* An association with one repository more is a matter of that repository alone.
LEMMA OthersUntouched ==
  ASSUME LfsShape, QuotaHolds, NEW r \in LfsRepos, NEW o \in Oids,
         attached' = attached \cup {<<r, o>>},
         r \in Importable \/ WithinQuota(r, o)
  PROVE  QuotaHolds'
<1> SUFFICES ASSUME NEW x \in LfsRepos \ Importable PROVE Cardinality(Of(x, attached)') <= RepoQuota
  BY DEF QuotaHolds
<1>1. CASE x = r
  BY <1>1, OneMoreFits
<1>2. CASE x # r
  <2>1. Of(x, attached)' = Of(x, attached)
    BY <1>2 DEF Of
  <2> QED BY <2>1 DEF QuotaHolds
<1> QED BY <1>1, <1>2

LEMMA LfsStarts == LfsInit => LfsInv
<1> SUFFICES ASSUME LfsInit PROVE LfsInv
  OBVIOUS
<1>1. LfsShape /\ PutsName /\ RowsStand /\ BytesStand
  BY DEF LfsInit, LfsShape, LfsPut, PutsName, RowsStand, BytesStand, IdlePut
<1>2. \A r \in LfsRepos : Of(r, attached) = {}
  BY DEF LfsInit, Of
<1>3. QuotaHolds
  BY <1>2, FS_EmptySet, LargeFilesAssumption DEF QuotaHolds
<1> QED BY <1>1, <1>3 DEF LfsInv

\* The rows of an upload: one object, and its association where its repository is still there.
LEMMA CommitIsSound ==
  ASSUME LfsInv, NEW u \in Puts, put[u].st # "idle", Commit(u), UNCHANGED <<bucket, settled>>,
         volume \subseteq volume',
         put[u].oid \in volume' \/ put[u].st = "stored"
  PROVE  LfsInv'
<1> USE DEF LfsInv
<1> DEFINE r == put[u].repo  o == put[u].oid
<1>1. o \in Oids /\ r \in LfsRepos \cup {"none"} /\ put[u] \in LfsPut
  BY DEF PutsName, LfsShape, LfsPut
<1>2. IdlePut \in LfsPut /\ IdlePut.st = "idle" /\ ~IdlePut.import
  BY DEF IdlePut, LfsPut
<1>3. LfsShape'
  BY <1>1, <1>2 DEF LfsShape, Commit, LfsPut
<1>4. PutsName'
  BY <1>1, <1>2 DEF LfsShape, Commit, PutsName
<1>5. RowsStand'
  BY <1>1 DEF LfsShape, Commit, RowsStand
<1>6. BytesStand'
  BY <1>1, <1>2 DEF LfsShape, Commit, BytesStand
<1>7. QuotaHolds'
  <2>1. CASE r = "none"
    BY <2>1, FewerFit DEF Commit
  <2>2. CASE r # "none"
    <3>1. r \in Importable \/ WithinQuota(r, o)
      BY <2>2 DEF Commit, Accepted, PutsName
    <3> QED BY <2>2, <3>1, <1>1, OthersUntouched DEF Commit
  <2> QED BY <2>1, <2>2
<1> QED BY <1>3, <1>4, <1>5, <1>6, <1>7

LEMMA UploadsAreSound ==
  ASSUME LfsInv, NEW u \in Puts,
         \/ Aborted(u) \/ PutOnVolume(u)
         \/ HeadBucket(u) \/ PutInBucket(u) \/ PutRecorded(u) \/ RemoveFromBucket(u)
  PROVE  LfsInv'
<1> USE DEF LfsInv
<1>0. /\ put[u] \in LfsPut /\ (put[u].st # "idle" => put[u].oid \in Oids)
      /\ IdlePut \in LfsPut /\ IdlePut.st = "idle" /\ ~IdlePut.import
  BY DEF LfsShape, PutsName, IdlePut, LfsPut
<1>1. CASE Aborted(u)
  <2>1. LfsShape' /\ PutsName' /\ RowsStand' /\ BytesStand'
    BY <1>0, <1>1 DEF Aborted, LfsShape, PutsName, RowsStand, BytesStand
  <2> QED BY <1>1, <2>1, FewerFit DEF Aborted
<1>2. CASE PutOnVolume(u)
  <2>1. CASE Commit(u) /\ volume' = volume \cup {put[u].oid}
    BY <1>2, <2>1, CommitIsSound DEF PutOnVolume
  <2>2. CASE ~Commit(u) \/ volume' # volume \cup {put[u].oid}
    <3>1. LfsShape' /\ PutsName' /\ RowsStand' /\ attached' = attached
      BY <1>0, <1>2, <2>2 DEF PutOnVolume, LfsShape, PutsName, RowsStand
    <3>2. BytesStand'
      BY <1>0, <1>2, <2>2 DEF PutOnVolume, LfsShape, BytesStand
    <3> QED BY <3>1, <3>2, FewerFit
  <2> QED BY <2>1, <2>2
<1>3. CASE HeadBucket(u)
  <2>1. LfsShape' /\ PutsName' /\ RowsStand' /\ BytesStand'
    BY <1>0, <1>3 DEF HeadBucket, LfsShape, LfsPut, PutsName, RowsStand, BytesStand
  <2> QED BY <1>3, <2>1, FewerFit DEF HeadBucket
<1>4. CASE PutInBucket(u)
  <2>1. LfsShape' /\ PutsName' /\ RowsStand' /\ BytesStand'
    BY <1>0, <1>4 DEF PutInBucket, LfsShape, LfsPut, PutsName, RowsStand, BytesStand
  <2> QED BY <1>4, <2>1, FewerFit DEF PutInBucket
<1>5. CASE PutRecorded(u)
  <2>1. CASE Commit(u)
    BY <1>5, <2>1, CommitIsSound DEF PutRecorded
  <2>2. CASE ~Commit(u)
    <3>1. LfsShape' /\ PutsName' /\ RowsStand' /\ BytesStand' /\ attached' = attached
      BY <1>0, <1>5, <2>2 DEF PutRecorded, LfsShape, LfsPut, PutsName, RowsStand, BytesStand
    <3> QED BY <3>1, FewerFit
  <2> QED BY <2>1, <2>2
<1>6. CASE RemoveFromBucket(u)
  <2>1. LfsShape' /\ PutsName' /\ RowsStand'
    BY <1>0, <1>6 DEF RemoveFromBucket, LfsShape, LfsPut, PutsName, RowsStand
  <2>2. BytesStand'
    BY <1>0, <1>6 DEF RemoveFromBucket, LfsShape, BytesStand
  <2> QED BY <1>6, <2>1, <2>2, FewerFit DEF RemoveFromBucket
<1> QED BY <1>1, <1>2, <1>3, <1>4, <1>5, <1>6

LEMMA ObjectsAreAttached ==
  ASSUME LfsInv, NEW r \in LfsRepos, NEW o \in Oids,
         \/ BatchUpload(r, o) \/ UploadExpires(r, o)
         \/ \E u \in Puts : PutStarts(u, r, o) \/ ImportStarts(u, r, o)
  PROVE  LfsInv'
<1> USE DEF LfsInv
<1>1. CASE BatchUpload(r, o)
  <2>1. LfsShape' /\ PutsName' /\ RowsStand' /\ BytesStand'
    BY <1>1 DEF BatchUpload, LfsShape, PutsName, RowsStand, BytesStand
  <2>2. QuotaHolds'
    BY <1>1, FewerFit, OthersUntouched DEF BatchUpload
  <2> QED BY <2>1, <2>2
<1>2. CASE UploadExpires(r, o)
  <2>1. LfsShape' /\ PutsName' /\ RowsStand' /\ BytesStand'
    BY <1>2 DEF UploadExpires, LfsShape, PutsName, RowsStand, BytesStand
  <2> QED BY <1>2, <2>1, FewerFit DEF UploadExpires
<1>3. ASSUME NEW u \in Puts, PutStarts(u, r, o) PROVE LfsInv'
  <2>1. LfsShape' /\ PutsName' /\ RowsStand' /\ BytesStand'
    BY <1>3 DEF PutStarts, LfsShape, LfsPut, PutsName, RowsStand, BytesStand
  <2> QED BY <1>3, <2>1, FewerFit DEF PutStarts
<1>4. ASSUME NEW u \in Puts, ImportStarts(u, r, o) PROVE LfsInv'
  <2>1. LfsShape' /\ PutsName' /\ RowsStand' /\ BytesStand'
    <3> DEFINE new == [st |-> "body", repo |-> r, oid |-> o, import |-> TRUE]
    <3>1. CASE o \in objects
      BY <1>4, <3>1 DEF ImportStarts, LfsShape, PutsName, RowsStand, BytesStand
    <3>2. CASE o \notin objects
      <4>1. new \in LfsPut /\ r \in Importable
        BY <1>4 DEF LfsPut, ImportStarts
      <4>2. put' = [put EXCEPT ![u] = new] /\ UNCHANGED <<objects, attached, pending, volume, bucket, settled>>
        BY <1>4, <3>2 DEF ImportStarts
      <4> QED BY <4>1, <4>2 DEF LfsShape, PutsName, RowsStand, BytesStand
    <3> QED BY <3>1, <3>2
  <2>2. QuotaHolds'
    BY <1>4, FewerFit, OthersUntouched DEF ImportStarts
  <2> QED BY <2>1, <2>2
<1> QED BY <1>1, <1>2, <1>3, <1>4

LEMMA KeepingIsSound ==
  ASSUME LfsInv,
         \/ \E r \in LfsRepos : RepositoryPurged(r)
         \/ GarbageCollectLfs \/ GarbageCollectionDies
         \/ \E o \in Oids : MigrateObject(o) \/ ReclaimObject(o)
         \/ VerifyBucket \/ Cutover
  PROVE  LfsInv'
<1> USE DEF LfsInv
<1>0. IdlePut \in LfsPut /\ IdlePut.st = "idle" /\ ~IdlePut.import
  BY DEF IdlePut, LfsPut
<1>1. ASSUME NEW r \in LfsRepos, RepositoryPurged(r) PROVE LfsInv'
  <2>1. LfsShape'
    BY <1>1 DEF RepositoryPurged, LfsShape, LfsPut
  <2>2. PutsName'
    BY <1>1 DEF RepositoryPurged, LfsShape, LfsPut, PutsName
  <2>3. RowsStand'
    BY <1>1 DEF RepositoryPurged, RowsStand
  <2>4. BytesStand'
    BY <1>1 DEF RepositoryPurged, LfsShape, LfsPut, BytesStand
  <2> QED BY <1>1, <2>1, <2>2, <2>3, <2>4, FewerFit DEF RepositoryPurged
<1>2. CASE GarbageCollectLfs
  <2>1. LfsShape' /\ PutsName' /\ BytesStand'
    BY <1>2 DEF GarbageCollectLfs, LfsShape, PutsName, BytesStand
  <2>2. \A p \in attached : p[2] \notin Orphans
    BY DEF LfsShape, Orphans, Holders
  <2>3. RowsStand'
    BY <1>2, <2>2 DEF GarbageCollectLfs, RowsStand
  <2> QED BY <1>2, <2>1, <2>3, FewerFit DEF GarbageCollectLfs
<1>3. CASE GarbageCollectionDies
  <2>1. LfsShape' /\ PutsName' /\ RowsStand' /\ BytesStand'
    BY <1>0, <1>3 DEF GarbageCollectionDies, LfsShape, PutsName, RowsStand, BytesStand
  <2> QED BY <1>3, <2>1, FewerFit DEF GarbageCollectionDies
<1>4. ASSUME NEW o \in Oids, MigrateObject(o) PROVE LfsInv'
  <2>1. LfsShape' /\ PutsName' /\ RowsStand' /\ BytesStand'
    BY <1>4 DEF MigrateObject, LfsShape, PutsName, RowsStand, BytesStand
  <2> QED BY <1>4, <2>1, FewerFit DEF MigrateObject
<1>5. ASSUME NEW o \in Oids, ReclaimObject(o) PROVE LfsInv'
  <2>1. LfsShape' /\ PutsName' /\ RowsStand' /\ BytesStand'
    BY <1>5 DEF ReclaimObject, MayReclaim, LfsShape, PutsName, RowsStand, BytesStand
  <2> QED BY <1>5, <2>1, FewerFit DEF ReclaimObject
<1>6. CASE VerifyBucket
  <2>1. LfsShape' /\ PutsName' /\ RowsStand' /\ BytesStand'
    BY <1>6 DEF VerifyBucket, LfsShape, PutsName, RowsStand, BytesStand
  <2> QED BY <1>6, <2>1, FewerFit DEF VerifyBucket
<1>7. CASE Cutover
  <2>1. LfsShape' /\ PutsName' /\ RowsStand' /\ BytesStand'
    BY <1>0, <1>7 DEF Cutover, LfsShape, PutsName, RowsStand, BytesStand
  <2> QED BY <1>7, <2>1, FewerFit DEF Cutover
<1> QED BY <1>1, <1>2, <1>3, <1>4, <1>5, <1>6, <1>7

\* As long as no collection is cut off and no late DELETE reaches the bucket, an object some
\* repository refers to has its row and its bytes; and only imports pass a quota: for any
\* objects, repositories, quotas and uploads at once (git-lfs.mjs, object-storage.mjs,
\* lfs-import.mjs, lfs-storage-migration.mjs).
THEOREM LargeFilesHold == LfsSpec => [](NothingLost /\ QuotaHolds)
<1>1. LfsInv /\ [LfsNext]_lfsVars => LfsInv'
  <2> SUFFICES ASSUME LfsInv, [LfsNext]_lfsVars PROVE LfsInv'
    OBVIOUS
  <2>1. CASE UNCHANGED lfsVars
    BY <2>1 DEF lfsVars, LfsInv, LfsShape, PutsName, RowsStand, BytesStand, QuotaHolds, Of
  <2> QED BY <2>1, UploadsAreSound, ObjectsAreAttached, KeepingIsSound DEF LfsNext
<1>2. LfsInv => NothingLost /\ QuotaHolds
  BY DEF LfsInv, RowsStand, BytesStand, NothingLost
<1> QED BY LfsStarts, <1>1, <1>2, PTL DEF LfsSpec

(* ObjectStorage: artifacts and caches of workflow runs.                   *)

CacheEntry == [ref : CIRefs, key : CacheKeys, digest : Digests, fork : BOOLEAN]

EachOnce(s) == \A i, j \in DOMAIN s : s[i] = s[j] => i = j

\* The two orders of the cache list the same entries, each once.
CacheInOrder ==
  /\ caches \in Seq(CacheEntry) /\ recent \in Seq(CacheEntry)
  /\ EachOnce(caches) /\ EachOnce(recent)
  /\ ToSet(recent) = ToSet(caches) /\ Len(recent) = Len(caches)

\* Over the quota is only what a save has still to evict, or died before it did.
QuotaOrCut == Len(recent) <= CacheQuota \/ saving # "idle" \/ overrun

ArtifactsFit == IsFiniteSet(DOMAIN artifacts) /\ Cardinality(DOMAIN artifacts) <= ArtifactQuota

NamedAreThere == Named(artifacts, caches) \subseteq blobs \cap files

NoForks == \A c \in ToSet(caches) : ~c.fork

StorageInv == CacheInOrder /\ QuotaOrCut /\ ArtifactsFit /\ NamedAreThere /\ NoForks /\ NotPoisoned

LEMMA WithoutAt ==
  ASSUME NEW S, NEW s \in Seq(S), NEW i \in 1 .. Len(s)
  PROVE  /\ RemoveAt(s, i) \in Seq(S) /\ Len(RemoveAt(s, i)) = Len(s) - 1
         /\ \A j \in 1 .. Len(s) - 1 : RemoveAt(s, i)[j] = IF j < i THEN s[j] ELSE s[j + 1]
<1> DEFINE n == Len(s)  a == SubSeq(s, 1, i - 1)  b == SubSeq(s, i + 1, n)
<1>0. n \in Nat /\ i \in 1 .. n /\ i \in Int
  OBVIOUS
<1>1. /\ a \in Seq(S) /\ Len(a) = i - 1 /\ \A j \in 1 .. i - 1 : a[j] = s[j]
      /\ b \in Seq(S) /\ Len(b) = n - i /\ \A j \in 1 .. n - i : b[j] = s[i + j]
  <2>1. (\A j \in 1 .. i - 1 : s[j] \in S) /\ (\A j \in i + 1 .. n : s[j] \in S)
    OBVIOUS
  <2>2. a \in Seq(S) /\ Len(a) = IF 1 <= i - 1 THEN (i - 1) - 1 + 1 ELSE 0
    BY <2>1, SubSeqProperties
  <2>3. \A j \in 1 .. (i - 1) - 1 + 1 : a[j] = s[1 + j - 1]
    BY <2>1, SubSeqProperties
  <2>4. b \in Seq(S) /\ Len(b) = IF i + 1 <= n THEN n - (i + 1) + 1 ELSE 0
    BY <2>1, SubSeqProperties
  <2>5. \A j \in 1 .. n - (i + 1) + 1 : b[j] = s[(i + 1) + j - 1]
    BY <2>1, SubSeqProperties
  <2> HIDE DEF n, a, b
  <2>6. (i - 1) - 1 + 1 = i - 1 /\ n - (i + 1) + 1 = n - i
    BY <1>0
  <2>7. \A j \in Int : 1 + j - 1 = j /\ (i + 1) + j - 1 = i + j
    BY <1>0
  <2>8. Len(a) = i - 1 /\ Len(b) = n - i
    BY <1>0, <2>2, <2>4
  <2>9. \A j \in 1 .. i - 1 : a[j] = s[j]
    BY <2>3, <2>6, <2>7
  <2>10. \A j \in 1 .. n - i : b[j] = s[i + j]
    BY <2>5, <2>6, <2>7
  <2> QED BY <2>2, <2>4, <2>8, <2>9, <2>10
<1> HIDE DEF a, b
<1>2. /\ a \o b \in Seq(S) /\ Len(a \o b) = Len(s) - 1
      /\ \A j \in 1 .. Len(s) - 1 : (a \o b)[j] = IF j <= i - 1 THEN a[j] ELSE b[j - (i - 1)]
  <2>1. /\ a \o b \in Seq(S) /\ Len(a \o b) = Len(a) + Len(b)
        /\ \A j \in 1 .. Len(a) + Len(b) : (a \o b)[j] = IF j <= Len(a) THEN a[j] ELSE b[j - Len(a)]
    BY <1>1, ConcatProperties
  <2>2. Len(a) + Len(b) = Len(s) - 1
    BY <1>0, <1>1
  <2> QED BY <1>1, <2>1, <2>2
<1>3. \A j \in 1 .. Len(s) - 1 : (a \o b)[j] = IF j < i THEN s[j] ELSE s[j + 1]
  <2> SUFFICES ASSUME NEW j \in 1 .. Len(s) - 1 PROVE (a \o b)[j] = IF j < i THEN s[j] ELSE s[j + 1]
    OBVIOUS
  <2>1. CASE j < i
    BY <2>1, <1>1, <1>2
  <2>2. CASE ~(j < i)
    <3>1. j - (i - 1) \in 1 .. Len(s) - i /\ i + (j - (i - 1)) = j + 1
      BY <2>2
    <3> QED BY <2>2, <3>1, <1>1, <1>2
  <2> QED BY <2>1, <2>2
<1> QED BY <1>2, <1>3 DEF a, b, RemoveAt

LEMMA OneRemoved ==
  ASSUME NEW S, NEW s \in Seq(S), EachOnce(s), NEW e \in ToSet(s)
  PROVE  LET t == RemoveFirst(s, e)
         IN t \in Seq(S) /\ Len(t) = Len(s) - 1 /\ EachOnce(t) /\ ToSet(t) = ToSet(s) \ {e}
<1>1. DOMAIN s = 1 .. Len(s) /\ Len(s) \in Nat
  OBVIOUS
<1>2. PICK i \in 1 .. Len(s) : s[i] = e
  BY <1>1 DEF ToSet
<1>3. {j \in 1 .. Len(s) : s[j] = e} = {i}
  BY <1>1, <1>2 DEF EachOnce
<1>4. RemoveFirst(s, e) = RemoveAt(s, i)
  <2>1. Min({i}) = i
    BY DEF Min
  <2>2. SelectInSeq(s, LAMBDA v : v = e) = i
    BY <1>3, <2>1 DEF SelectInSeq
  <2> QED BY <1>2, <2>2 DEF RemoveFirst
<1> DEFINE t == RemoveFirst(s, e)
<1>5. /\ t \in Seq(S) /\ Len(t) = Len(s) - 1
      /\ \A j \in 1 .. Len(s) - 1 : t[j] = IF j < i THEN s[j] ELSE s[j + 1]
  BY <1>4, WithoutAt
<1> HIDE DEF t
<1>6. DOMAIN t = 1 .. Len(s) - 1
  BY <1>5
<1>7. EachOnce(t)
  <2> SUFFICES ASSUME NEW j \in 1 .. Len(s) - 1, NEW k \in 1 .. Len(s) - 1, t[j] = t[k] PROVE j = k
    BY <1>6 DEF EachOnce
  <2> DEFINE up(n) == IF n < i THEN n ELSE n + 1
  <2>1. up(j) \in DOMAIN s /\ up(k) \in DOMAIN s /\ t[j] = s[up(j)] /\ t[k] = s[up(k)]
    BY <1>1, <1>5
  <2>2. up(j) = up(k)
    BY <2>1 DEF EachOnce
  <2> QED BY <2>2
<1>8. ToSet(t) = ToSet(s) \ {e}
  <2>1. ASSUME NEW x \in ToSet(t) PROVE x \in ToSet(s) \ {e}
    <3>1. PICK j \in 1 .. Len(s) - 1 : x = t[j]
      BY <1>6, <2>1 DEF ToSet
    <3> DEFINE k == IF j < i THEN j ELSE j + 1
    <3>2. k \in DOMAIN s /\ k # i /\ x = s[k]
      BY <1>1, <1>5, <3>1
    <3> QED BY <3>2, <1>1, <1>2 DEF ToSet, EachOnce
  <2>2. ASSUME NEW x \in ToSet(s) \ {e} PROVE x \in ToSet(t)
    <3>1. PICK k \in 1 .. Len(s) : x = s[k]
      BY <1>1, <2>2 DEF ToSet
    <3> DEFINE j == IF k < i THEN k ELSE k - 1
    <3>2. j \in 1 .. Len(s) - 1 /\ t[j] = s[k]
      BY <1>1, <1>2, <1>5, <2>2, <3>1
    <3> QED BY <3>1, <3>2, <1>6 DEF ToSet
  <2> QED BY <2>1, <2>2
<1> QED BY <1>5, <1>7, <1>8 DEF t

LEMMA OneAdded ==
  ASSUME NEW S, NEW s \in Seq(S), EachOnce(s), NEW e \in S, e \notin ToSet(s)
  PROVE  LET t == Append(s, e)
         IN t \in Seq(S) /\ Len(t) = Len(s) + 1 /\ EachOnce(t) /\ ToSet(t) = ToSet(s) \cup {e}
<1> DEFINE t == Append(s, e)
<1>1. /\ t \in Seq(S) /\ Len(t) = Len(s) + 1 /\ DOMAIN t = 1 .. Len(s) + 1 /\ DOMAIN s = 1 .. Len(s)
      /\ t[Len(s) + 1] = e /\ (\A j \in 1 .. Len(s) : t[j] = s[j]) /\ Len(s) \in Nat
  OBVIOUS
<1> HIDE DEF t
<1>2. EachOnce(t)
  BY <1>1 DEF EachOnce, ToSet
<1>3. ToSet(t) = ToSet(s) \cup {e}
  <2>1. ASSUME NEW x \in ToSet(t) PROVE x \in ToSet(s) \cup {e}
    BY <1>1, <2>1 DEF ToSet
  <2>2. ASSUME NEW x \in ToSet(s) PROVE x \in ToSet(t)
    BY <1>1, <2>2 DEF ToSet
  <2>3. e \in ToSet(t)
    BY <1>1 DEF ToSet
  <2> QED BY <2>1, <2>2, <2>3
<1> QED BY <1>1, <1>2, <1>3 DEF t

LEMMA StorageStarts == StorageInit => StorageInv
<1> SUFFICES ASSUME StorageInit PROVE StorageInv
  OBVIOUS
<1>1. DOMAIN artifacts = {} /\ caches = <<>> /\ recent = <<>> /\ ToSet(<<>>) = {} /\ Len(<<>>) = 0
  BY DEF StorageInit, ToSet
<1>2. CacheInOrder /\ QuotaOrCut /\ NoForks
  BY <1>1, RunStorageAssumption DEF CacheInOrder, QuotaOrCut, NoForks, EachOnce
<1>3. ArtifactsFit
  BY <1>1, FS_EmptySet, RunStorageAssumption DEF ArtifactsFit
<1>4. NamedAreThere /\ NotPoisoned
  BY <1>1 DEF StorageInit, NamedAreThere, Named, NotPoisoned
<1> QED BY <1>2, <1>3, <1>4 DEF StorageInv

\* A save puts one entry, with its bytes; an eviction takes one of both orders; the end
\* of a save, or its death, takes only bytes that nothing names.
LEMMA CachesAreSound ==
  ASSUME StorageInv,
         \/ \E ref \in CIRefs, key \in CacheKeys, d \in Digests, fork \in BOOLEAN :
              SaveCache(ref, key, d, fork)
         \/ EvictCache \/ SaveEnds \/ SaveDies
  PROVE  StorageInv'
<1> USE DEF StorageInv
<1>1. ASSUME NEW ref \in CIRefs, NEW key \in CacheKeys, NEW d \in Digests, NEW fork \in BOOLEAN,
             SaveCache(ref, key, d, fork)
      PROVE  StorageInv'
  <2> DEFINE e    == Entry(ref, key, d, fork)
             used == Append(recent, e)
             more == Append(caches, e)
  <2>0. /\ ~fork /\ caches' = more /\ recent' = used /\ artifacts' = artifacts /\ handed' = handed
        /\ e \notin ToSet(caches) /\ saving' = "saved"
        /\ blobs' = blobs \cup {d} /\ files' = files \cup {d}
    BY <1>1 DEF SaveCache, MaySave, Entry, PutBlob
  <2>1. e \in CacheEntry /\ e.digest = d /\ ~e.fork
    BY <2>0 DEF Entry, CacheEntry
  <2> HIDE DEF e
  <2>2. /\ more \in Seq(CacheEntry) /\ Len(more) = Len(caches) + 1 /\ EachOnce(more)
        /\ ToSet(more) = ToSet(caches) \cup {e}
    BY <2>0, <2>1, OneAdded DEF CacheInOrder
  <2>3. /\ used \in Seq(CacheEntry) /\ Len(used) = Len(recent) + 1 /\ EachOnce(used)
        /\ ToSet(used) = ToSet(recent) \cup {e}
    BY <2>0, <2>1, OneAdded DEF CacheInOrder
  <2> HIDE DEF used, more
  <2>4. CacheInOrder' /\ QuotaOrCut'
    BY <2>0, <2>2, <2>3 DEF CacheInOrder, QuotaOrCut
  <2>5. ArtifactsFit' /\ NotPoisoned'
    BY <2>0 DEF ArtifactsFit, NotPoisoned
  <2>6. NoForks'
    BY <2>0, <2>1, <2>2 DEF NoForks
  <2>7. NamedAreThere'
    <3>1. Named(artifacts, caches)' = Named(artifacts, caches) \cup {d}
      BY <2>0, <2>1, <2>2 DEF Named
    <3> QED BY <2>0, <3>1 DEF NamedAreThere
  <2> QED BY <2>4, <2>5, <2>6, <2>7
<1>2. CASE EvictCache
  <2> DEFINE e == Head(recent)
  <2>0. /\ saving # "idle" /\ OverQuota /\ saving' = "evicted"
        /\ caches' = RemoveFirst(caches, e) /\ recent' = RemoveFirst(recent, e)
        /\ UNCHANGED <<blobs, files, artifacts, handed, overrun>>
    BY <1>2 DEF EvictCache
  <2>1. e \in ToSet(recent) /\ e \in ToSet(caches)
    <3>1. Len(recent) # 0 /\ recent \in Seq(CacheEntry)
      BY <2>0, RunStorageAssumption DEF OverQuota, CacheInOrder
    <3>2. Head(recent) = recent[1] /\ 1 \in DOMAIN recent
      BY <3>1
    <3> QED BY <3>2 DEF ToSet, CacheInOrder
  <2> HIDE DEF e
  <2>2. /\ caches' \in Seq(CacheEntry) /\ Len(caches') = Len(caches) - 1 /\ EachOnce(caches')
        /\ ToSet(caches') = ToSet(caches) \ {e}
    BY <2>0, <2>1, OneRemoved DEF CacheInOrder
  <2>3. /\ recent' \in Seq(CacheEntry) /\ Len(recent') = Len(recent) - 1 /\ EachOnce(recent')
        /\ ToSet(recent') = ToSet(recent) \ {e}
    BY <2>0, <2>1, OneRemoved DEF CacheInOrder
  <2>4. CacheInOrder' /\ QuotaOrCut'
    BY <2>0, <2>2, <2>3 DEF CacheInOrder, QuotaOrCut
  <2>5. ArtifactsFit' /\ NotPoisoned' /\ NoForks'
    BY <2>0, <2>2 DEF ArtifactsFit, NotPoisoned, NoForks
  <2>6. NamedAreThere'
    BY <2>0, <2>2 DEF NamedAreThere, Named
  <2> QED BY <2>4, <2>5, <2>6
<1>3. CASE SaveEnds
  <2>1. UNCHANGED <<artifacts, caches, recent, handed>> /\ ~OverQuota
    BY <1>3 DEF SaveEnds
  <2>2. Len(recent) <= CacheQuota
    BY <2>1, RunStorageAssumption DEF OverQuota, CacheInOrder
  <2>3. CacheInOrder' /\ QuotaOrCut' /\ ArtifactsFit' /\ NotPoisoned' /\ NoForks'
    BY <2>1, <2>2 DEF CacheInOrder, QuotaOrCut, ArtifactsFit, NotPoisoned, NoForks
  <2>4. NamedAreThere'
    BY <1>3, <2>1 DEF SaveEnds, Collect, Unnamed, Named, NamedAreThere
  <2> QED BY <2>3, <2>4
<1>4. CASE SaveDies
  <2>1. UNCHANGED <<blobs, artifacts, caches, recent, handed>> /\ overrun'
    BY <1>4 DEF SaveDies
  <2>2. CacheInOrder' /\ QuotaOrCut' /\ ArtifactsFit' /\ NotPoisoned' /\ NoForks'
    BY <2>1 DEF CacheInOrder, QuotaOrCut, ArtifactsFit, NotPoisoned, NoForks
  <2>3. NamedAreThere'
    BY <1>4, <2>1 DEF SaveDies, Unnamed, Named, NamedAreThere
  <2> QED BY <2>2, <2>3
<1> QED BY <1>1, <1>2, <1>3, <1>4

LEMMA HitsAreEntries ==
  ASSUME NEW ref, NEW key, NEW family, NEW e \in CacheHit(ref, key, family)
  PROVE  e \in ToSet(caches) /\ e.ref \in {ref, DefaultRef}
<1>1. \A f, keys : \A x \in Newest(f, keys) : x \in ToSet(caches) /\ x.ref = f
  BY DEF Newest, ToSet
<1>2. \A f : \A x \in OnRef(f, key, family) : x \in ToSet(caches) /\ x.ref = f
  BY <1>1 DEF OnRef
<1> QED BY <1>2 DEF CacheHit

LEMMA RestoringIsSound ==
  ASSUME StorageInv, NEW ref \in CIRefs, NEW key \in CacheKeys, NEW family, RestoreCache(ref, key, family),
         UNCHANGED saveVars
  PROVE  StorageInv'
<1> USE DEF StorageInv
<1>1. PICK e \in CacheHit(ref, key, family) :
        /\ IF e.digest \in files
             THEN /\ recent' = Append(RemoveFirst(recent, e), e)
                  /\ handed' = [to |-> ref, ref |-> e.ref, fork |-> e.fork]
                  /\ UNCHANGED caches
             ELSE /\ caches' = RemoveFirst(caches, e) /\ recent' = RemoveFirst(recent, e)
                  /\ UNCHANGED handed
        /\ UNCHANGED <<blobs, files, artifacts>>
  BY DEF RestoreCache
<1>2. e \in ToSet(caches) /\ e.ref \in {ref, DefaultRef} /\ e \in ToSet(recent) /\ e \in CacheEntry /\ ~e.fork
  <2>1. e \in ToSet(caches) /\ e.ref \in {ref, DefaultRef}
    BY HitsAreEntries
  <2>2. \A c \in ToSet(caches) : c \in CacheEntry
    BY DEF CacheInOrder, ToSet
  <2> QED BY <2>1, <2>2 DEF CacheInOrder, NoForks
<1> DEFINE less == RemoveFirst(recent, e)
<1>3. /\ less \in Seq(CacheEntry) /\ Len(less) = Len(recent) - 1 /\ EachOnce(less)
      /\ ToSet(less) = ToSet(recent) \ {e}
  BY <1>2, OneRemoved DEF CacheInOrder
<1> HIDE DEF less
<1>4. ArtifactsFit'
  BY <1>1 DEF ArtifactsFit
<1>5. CASE e.digest \in files
  <2>1. /\ Append(less, e) \in Seq(CacheEntry) /\ Len(Append(less, e)) = Len(less) + 1
        /\ EachOnce(Append(less, e)) /\ ToSet(Append(less, e)) = ToSet(less) \cup {e}
    BY <1>2, <1>3, OneAdded
  <2>2. recent' = Append(less, e) /\ caches' = caches
    BY <1>1, <1>5 DEF less
  <2>3. Len(recent) \in Nat /\ Len(Append(less, e)) = Len(recent) /\ ToSet(Append(less, e)) = ToSet(recent)
    BY <1>2, <1>3, <2>1 DEF CacheInOrder
  <2>4. CacheInOrder' /\ QuotaOrCut' /\ NoForks'
    BY <2>1, <2>2, <2>3 DEF CacheInOrder, QuotaOrCut, NoForks, saveVars
  <2>5. NamedAreThere' /\ NotPoisoned'
    BY <1>1, <1>2, <1>5 DEF NamedAreThere, Named, NotPoisoned
  <2> QED BY <1>4, <2>4, <2>5
<1>6. CASE e.digest \notin files
  <2>1. /\ RemoveFirst(caches, e) \in Seq(CacheEntry) /\ Len(RemoveFirst(caches, e)) = Len(caches) - 1
        /\ EachOnce(RemoveFirst(caches, e)) /\ ToSet(RemoveFirst(caches, e)) = ToSet(caches) \ {e}
    BY <1>2, OneRemoved DEF CacheInOrder
  <2>2. recent' = less /\ caches' = RemoveFirst(caches, e) /\ handed' = handed
    BY <1>1, <1>6 DEF less
  <2>3. Len(recent) = Len(caches) /\ Len(recent) \in Nat /\ CacheQuota \in Nat
    BY RunStorageAssumption DEF CacheInOrder
  <2>4. CacheInOrder' /\ NoForks'
    BY <1>3, <2>1, <2>2, <2>3 DEF CacheInOrder, NoForks
  <2>6. QuotaOrCut'
    <3>1. Len(recent') = Len(recent) - 1
      BY <1>3, <2>2
    <3>2. saving' = saving /\ overrun' = overrun
      BY DEF saveVars
    <3> QED BY <2>3, <3>1, <3>2 DEF QuotaOrCut
  <2>5. NamedAreThere' /\ NotPoisoned'
    BY <1>1, <2>1, <2>2 DEF NamedAreThere, Named, NotPoisoned
  <2> QED BY <1>4, <2>4, <2>5, <2>6
<1> QED BY <1>5, <1>6

\* A collection spares what the rows that stay name.
LEMMA NamedAreSpared ==
  ASSUME Named(artifacts', caches) \subseteq blobs \cap files, Collect(artifacts', caches), UNCHANGED caches
  PROVE  NamedAreThere'
  BY DEF Collect, Unnamed, Named, NamedAreThere

LEMMA ArtifactsAreSound ==
  ASSUME StorageInv,
         \/ \E r \in CIRuns, n \in Names, d \in Digests : PutArtifact(r, n, d)
         \/ \E d \in Digests : PutBlobDies(d)
         \/ CollectDies \/ DeleteArtifact \/ ExpireArtifacts \/ DeletionDies,
         UNCHANGED saveVars
  PROVE  StorageInv'
<1> USE DEF StorageInv
<1>0. ASSUME UNCHANGED recent PROVE QuotaOrCut'
  BY <1>0 DEF QuotaOrCut, saveVars
<1>1. ASSUME NEW r \in CIRuns, NEW n \in Names, NEW d \in Digests, PutArtifact(r, n, d) PROVE StorageInv'
  <2>0. /\ <<r, n>> \notin DOMAIN artifacts /\ Cardinality(DOMAIN artifacts) < ArtifactQuota
        /\ DOMAIN artifacts' = DOMAIN artifacts \cup {<<r, n>>}
        /\ \A a \in DOMAIN artifacts' : artifacts'[a] = IF a = <<r, n>> THEN d ELSE artifacts[a]
        /\ blobs' = blobs \cup {d} /\ files' = files \cup {d} /\ UNCHANGED <<caches, recent, handed>>
    BY <1>1 DEF PutArtifact, PutBlob
  <2>1. CacheInOrder' /\ NoForks' /\ NotPoisoned'
    BY <2>0 DEF CacheInOrder, NoForks, NotPoisoned
  <2>2. ArtifactsFit'
    <3>1. /\ IsFiniteSet(DOMAIN artifacts')
          /\ Cardinality(DOMAIN artifacts') = Cardinality(DOMAIN artifacts) + 1
      BY <2>0, FS_AddElement DEF ArtifactsFit
    <3>2. Cardinality(DOMAIN artifacts) \in Nat
      BY FS_CardinalityType DEF ArtifactsFit
    <3> QED BY <2>0, <3>1, <3>2, RunStorageAssumption DEF ArtifactsFit
  <2>3. NamedAreThere'
    BY <2>0 DEF NamedAreThere, Named
  <2> QED BY <1>0, <2>0, <2>1, <2>2, <2>3
<1>2. ASSUME NEW d \in Digests, PutBlobDies(d) PROVE StorageInv'
  BY <1>0, <1>2 DEF PutBlobDies, CacheInOrder, NoForks, NotPoisoned, ArtifactsFit, NamedAreThere, Named
<1>3. CASE CollectDies
  <2>1. CacheInOrder' /\ NoForks' /\ NotPoisoned' /\ ArtifactsFit'
    BY <1>3 DEF CollectDies, CacheInOrder, NoForks, NotPoisoned, ArtifactsFit
  <2>2. NamedAreThere'
    BY <1>3 DEF CollectDies, Unnamed, NamedAreThere, Named
  <2> QED BY <1>0, <1>3, <2>1, <2>2 DEF CollectDies
<1>4. ASSUME NEW gone \in SUBSET DOMAIN artifacts, artifacts' = Kept(gone), UNCHANGED <<caches, recent, handed>>
      PROVE  /\ CacheInOrder' /\ NoForks' /\ NotPoisoned' /\ ArtifactsFit'
             /\ Named(artifacts', caches) \subseteq blobs \cap files
  <2>1. CacheInOrder' /\ NoForks' /\ NotPoisoned'
    BY <1>4 DEF CacheInOrder, NoForks, NotPoisoned
  <2>2. DOMAIN artifacts' = DOMAIN artifacts \ gone
    BY <1>4 DEF Kept
  <2>3. ArtifactsFit'
    <3>1. /\ IsFiniteSet(DOMAIN artifacts') /\ Cardinality(DOMAIN artifacts') <= Cardinality(DOMAIN artifacts)
      BY <2>2, FS_Subset DEF ArtifactsFit
    <3>2. Cardinality(DOMAIN artifacts) \in Nat /\ Cardinality(DOMAIN artifacts') \in Nat
      BY <3>1, FS_CardinalityType DEF ArtifactsFit
    <3> QED BY <3>1, <3>2, RunStorageAssumption DEF ArtifactsFit
  <2>4. Named(artifacts', caches) \subseteq Named(artifacts, caches)
    BY <1>4 DEF Kept, Named
  <2> QED BY <2>1, <2>3, <2>4 DEF NamedAreThere
<1>5. ASSUME NEW gone \in SUBSET DOMAIN artifacts, RemoveArtifacts(gone) PROVE StorageInv'
  <2>1. /\ CacheInOrder' /\ NoForks' /\ NotPoisoned' /\ ArtifactsFit'
        /\ Named(artifacts', caches) \subseteq blobs \cap files
    BY <1>4, <1>5 DEF RemoveArtifacts
  <2>2. NamedAreThere'
    BY <1>5, <2>1, NamedAreSpared DEF RemoveArtifacts
  <2> QED BY <1>0, <1>5, <2>1, <2>2 DEF RemoveArtifacts
<1>6. CASE DeleteArtifact
  BY <1>5, <1>6 DEF DeleteArtifact
<1>7. CASE ExpireArtifacts
  BY <1>5, <1>7 DEF ExpireArtifacts
<1>8. CASE DeletionDies
  <2>1. /\ CacheInOrder' /\ NoForks' /\ NotPoisoned' /\ ArtifactsFit'
        /\ Named(artifacts', caches) \subseteq blobs \cap files
    BY <1>4, <1>8 DEF DeletionDies
  <2>2. NamedAreThere'
    BY <1>8, <2>1 DEF DeletionDies, NamedAreThere, Named
  <2> QED BY <1>0, <1>8, <2>1, <2>2 DEF DeletionDies
<1> QED BY <1>1, <1>2, <1>3, <1>6, <1>7, <1>8

\* An artifact and a cache entry have their bytes wherever the process dies, the quota of the
\* artifacts holds and that of the caches after every save that ends, and no job restores what a fork or another branch saved: for any runs, refs,
\* keys, contents and quotas (workflow-storage.mjs).
THEOREM RunStorageHolds == StorageSpec => [](RowsHaveBytes /\ NotPoisoned)
<1>1. StorageInv /\ [StorageNext]_storageVars => StorageInv'
  <2> SUFFICES ASSUME StorageInv, [StorageNext]_storageVars PROVE StorageInv'
    OBVIOUS
  <2>1. CASE UNCHANGED storageVars
    BY <2>1 DEF storageVars, StorageInv, CacheInOrder, QuotaOrCut, ArtifactsFit, NamedAreThere, Named, NoForks, NotPoisoned
  <2> QED BY <2>1, ArtifactsAreSound, CachesAreSound, RestoringIsSound DEF StorageNext
<1>2. StorageInv => RowsHaveBytes /\ NotPoisoned
  BY DEF StorageInv, CacheInOrder, QuotaOrCut, ArtifactsFit, NamedAreThere, RowsHaveBytes
<1> QED BY StorageStarts, <1>1, <1>2, PTL DEF StorageSpec

\* What a row of the database says is stored can be read, within the quota it was taken in under,
\* whatever is deduplicated, collected, evicted or moved to another store (git-lfs.mjs,
\* object-storage.mjs, lfs-storage-migration.mjs, workflow-storage.mjs).
THEOREM StoredIsKeptHolds == LfsSpec /\ StorageSpec => []StoredIsKept
  BY LargeFilesHold, RunStorageHolds, PTL DEF StoredIsKept

=============================================================================

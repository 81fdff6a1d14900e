------------------------------ MODULE MCStorage ------------------------------
(***************************************************************************)
(* What is kept outside the database, and the keys that reach it: bare     *)
(* repositories, LFS objects, the artifacts and caches of workflow runs,   *)
(* and git over SSH and HTTP.  Four state spaces of their own checked by   *)
(* one run; the initial state decides which one moves.  LFS stops when     *)
(* `settled` is gone: nothing is claimed from there on.                    *)
(***************************************************************************)
EXTENDS Repositories, ObjectStorage, Credentials, TLC

CONSTANTS r1, r2, q1, q2, spotA, spotB, spotC  \* members of the sets the states are symmetric in

VARIABLE part

allVars == <<repoVars, lfsVars, storageVars, credVars, part>>

FirstPlace == CHOOSE f \in [Works -> GitPlaces] : \A a, b \in Works : f[a] = f[b] => a = b

Init ==
  /\ RepoInit /\ LfsInit /\ StorageInit /\ CredInit
  /\ part \in {"repositories", "lfs", "runs", "credentials"}
  /\ part # "credentials" => place = FirstPlace

Next ==
  /\ UNCHANGED part
  /\ \/ part = "repositories" /\ RepoNext /\ UNCHANGED <<lfsVars, storageVars, credVars>>
     \/ part = "lfs" /\ settled /\ LfsNext /\ UNCHANGED <<repoVars, storageVars, credVars>>
     \/ part = "runs" /\ StorageNext /\ UNCHANGED <<repoVars, lfsVars, credVars>>
     \/ part = "credentials" /\ CredNext /\ UNCHANGED <<repoVars, lfsVars, storageVars>>

Spec == Init /\ [][Next]_allVars

\* At most two of these at once: a request under way, a crash, a tenant deleted.  A repository
\* that keys lead to is archived, trashed or disabled, one at a time.
Affordable ==
  /\ Cardinality({q \in Requests : req[q].op # "idle"}) + crashes + Cardinality(Orgs \ tenants) <= 2
  /\ \A r \in Works : Cardinality(closed[r]) <= 1

\* Repositories and objects, requests and uploads, and places are interchangeable.
Symmetry == Permutations({r1, r2}) \cup Permutations({q1, q2}) \cup Permutations(GitPlaces)

=============================================================================

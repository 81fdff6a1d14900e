----------------------------- MODULE Credentials -----------------------------
(***************************************************************************)
(* Access tokens, SSH keys and deploy keys, and what git serves through    *)
(* them (src/src/tokens.mjs, token-api.mjs, ssh-keys.mjs, ssh-lfs.mjs,     *)
(* git-http.mjs, the signed tokens of git-lfs.mjs).                        *)
(*                                                                         *)
(* A git command is authorised from the database and then a child process  *)
(* opens the directory of that name; whatever commits in between is not    *)
(* seen by it.  An LFS client is given a signed token for five minutes,    *)
(* of which the server keeps no record.  A deploy key is asked for by an   *)
(* administrator whose permission is looked up before the body is awaited. *)
(*                                                                         *)
(* `overtaken` and `reached` are history variables.                        *)
(***************************************************************************)
EXTENDS Naturals, FiniteSets

CONSTANTS
  KeyHolders,  \* users
  Works,       \* repositories
  GitPlaces,   \* organization/slug
  Rights,      \* permissions the model gives
  Prints,      \* fingerprints of public keys
  MaxRows,     \* bound: credentials in force
  MaxPending   \* bound: deploy keys asked for, commands starting and signed tokens

ASSUME CredentialsAssumption ==
  /\ MaxRows \in Nat /\ MaxPending \in Nat
  /\ Cardinality(Works) < Cardinality(GitPlaces)

VARIABLES
  inForce,       \* what is in force of user_ssh_keys, repository_deploy_keys, personal_access_tokens
  rights,     \* permission of each user on each repository: 0, 1 read, 2 write, 3 admin
  place,      \* organization and slug of each repository, and of its directory
  closed,     \* what each repository is: archived, trashed, disabled
  asks,       \* deploy keys asked for: user and repository
  starting,   \* the git command whose child has not opened its directory
  signed,     \* LFS tokens handed out
  overtaken,  \* what has changed since `starting` was authorised
  reached     \* what this step has reached

credVars == <<inForce, rights, place, closed, asks, starting, signed, overtaken, reached>>

Unreached == [how |-> "nothing"]
NoCommand == [row |-> "none", repo |-> "none", name |-> "none", write |-> FALSE]

CredInit ==
  /\ inForce = {} /\ asks = {} /\ starting = NoCommand /\ signed = {}
  /\ rights = [u \in KeyHolders |-> [r \in Works |-> 0]]
  /\ place \in {f \in [Works -> GitPlaces] : \A a, b \in Works : f[a] = f[b] => a = b}
  /\ closed = [r \in Works |-> {}]
  /\ overtaken = {} /\ reached = Unreached

\* The same, had it looked at the keys of users alone.
AvailableAmongUsers(f) == \A k \in inForce : k.kind = "user" => k.print # f

\* assertFingerprintAvailable: neither table has an active key with it.
Available(f) == \A k \in inForce : k.print # f

\* What the row of a credential allows on a repository, whoever asks.
Grants(k, r, write) ==
  /\ write => k.write
  /\ IF k.kind = "deploy" THEN k.of = r
     ELSE rights[k.of][r] >= (IF write THEN 2 ELSE 1) /\ "disabled" \notin closed[r]

\* authorizeSshCommand, authorizeLfsSshAuthentication, and for HTTP the archive guard and
\* authorizeGitCredential.
May(k, r, write) ==
  /\ k \in inForce /\ Grants(k, r, write)
  /\ "trashed" \notin closed[r] /\ (write => "archived" \notin closed[r])

Quiet == starting.name = "none"
HasPlace == Cardinality(asks) + Cardinality(signed) + (IF Quiet THEN 0 ELSE 1) < MaxPending
Overtake(what) == overtaken' = IF Quiet THEN {} ELSE overtaken \cup what
Add(k) == Cardinality(inForce) < MaxRows /\ inForce' = inForce \cup {k}
End(k) == inForce' = inForce \ {k}

-----------------------------------------------------------------------------
CreateUserSshKey(u, f) ==
  /\ Available(f)
  /\ Add([kind |-> "user", of |-> u, print |-> f, write |-> TRUE])
  /\ UNCHANGED <<rights, place, closed, asks, starting, signed, overtaken>>

CreateAccessToken(u, write) ==
  /\ Add([kind |-> "token", of |-> u, print |-> "none", write |-> write])
  /\ UNCHANGED <<rights, place, closed, asks, starting, signed, overtaken>>

\* The permission is looked up, and then the body is awaited.
AskDeployKey(u, r) ==
  /\ rights[u][r] = 3 /\ closed[r] \cap {"trashed", "disabled"} = {}
  /\ HasPlace /\ <<u, r>> \notin asks
  /\ asks' = asks \cup {<<u, r>>}
  /\ UNCHANGED <<inForce, rights, place, closed, starting, signed, overtaken>>

CreateDeployKey(u, r, f, write) ==
  /\ <<u, r>> \in asks /\ asks' = asks \ {<<u, r>>}
  /\ IF Available(f)
     THEN Add([kind |-> "deploy", of |-> r, print |-> f, write |-> write])
     ELSE UNCHANGED inForce
  /\ UNCHANGED <<rights, place, closed, starting, signed, overtaken>>

\* Revoked by its user, or an access token past its date.
RevokeOwn(k) ==
  /\ k.kind # "deploy" /\ End(k) /\ Overtake({"ended"})
  /\ UNCHANGED <<rights, place, closed, asks, starting, signed>>

RevokeDeployKey(u, k) ==
  /\ k.kind = "deploy" /\ rights[u][k.of] = 3
  /\ closed[k.of] \cap {"trashed", "disabled"} = {}
  /\ End(k) /\ Overtake({"ended"})
  /\ UNCHANGED <<rights, place, closed, asks, starting, signed>>

-----------------------------------------------------------------------------
\* The command names a place; the repository is the one that is there now.
GitCommand(k, r, write) ==
  /\ Quiet /\ HasPlace /\ May(k, r, write)
  /\ starting' = [row |-> k, repo |-> r, name |-> place[r], write |-> write]
  /\ overtaken' = {}
  /\ UNCHANGED <<inForce, rights, place, closed, asks, signed>>

Reach(how, c, found) ==
  reached' = [how |-> how, row |-> c.row, repo |-> c.repo, name |-> c.name,
             found |-> found, write |-> c.write,
             still |-> May(c.row, found, c.write), closed |-> closed[found],
             overtaken |-> overtaken]

\* git opens the directory of that name, or finds none.
OpenDirectory ==
  /\ ~Quiet
  /\ IF \E r \in Works : place[r] = starting.name
     THEN \E r \in Works : place[r] = starting.name /\ Reach("git", starting, r)
     ELSE reached' = Unreached
  /\ starting' = NoCommand /\ overtaken' = {}
  /\ UNCHANGED <<inForce, rights, place, closed, asks, signed>>

\* createLfsSshAuthentication
LfsAuthenticate(k, r, write) ==
  /\ k.kind # "token" /\ May(k, r, write) /\ HasPlace
  /\ signed' = signed \cup {[row |-> k, repo |-> r, name |-> place[r], write |-> write]}
  /\ UNCHANGED <<inForce, rights, place, closed, asks, starting, overtaken>>

\* verifyLfsAuthToken and the guards before it: nothing but the token says who asks.
LfsRequest(t) ==
  /\ place[t.repo] = t.name
  /\ closed[t.repo] \cap {"trashed", "disabled"} = {}
  /\ t.write => "archived" \notin closed[t.repo]
  /\ Reach("lfs", t, t.repo)
  /\ UNCHANGED <<inForce, rights, place, closed, asks, starting, signed, overtaken>>

SignedTokenEnds(t) ==
  /\ signed' = signed \ {t}
  /\ UNCHANGED <<inForce, rights, place, closed, asks, starting, overtaken>>

\* What the rest of the system does to permissions and repositories.
RightsChange(u, r, p) ==
  /\ p # rights[u][r] /\ rights' = [rights EXCEPT ![u][r] = p] /\ Overtake({"rights"})
  /\ UNCHANGED <<inForce, place, closed, asks, starting, signed>>

\* Archived and then trashed, or disabled; not both, to keep the instance small.
Close(r, what) ==
  /\ closed[r] = (IF what = "trashed" THEN {"archived"} ELSE {})
  /\ closed' = [closed EXCEPT ![r] = @ \cup {what}] /\ Overtake({what})
  /\ UNCHANGED <<inForce, rights, place, asks, starting, signed>>

Reopen(r, what) ==
  /\ what \in closed[r] /\ (what = "archived" => "trashed" \notin closed[r])
  /\ closed' = [closed EXCEPT ![r] = @ \ {what}] /\ UNCHANGED overtaken
  /\ UNCHANGED <<inForce, rights, place, asks, starting, signed>>

\* transferRepository: an archived repository takes a name that is free; its deploy keys
\* go with it.
TransferTo(r, n) ==
  /\ "archived" \in closed[r] /\ "trashed" \notin closed[r]
  /\ \A s \in Works : place[s] # n
  /\ place' = [place EXCEPT ![r] = n] /\ Overtake({"moved"})
  /\ UNCHANGED <<inForce, rights, closed, asks, starting, signed>>

\* What serves something, and all the rest.
ReachNext == OpenDirectory \/ \E t \in signed : LfsRequest(t)

ChangeNext ==
  \/ \E u \in KeyHolders, f \in Prints : CreateUserSshKey(u, f)
  \/ \E u \in KeyHolders, w \in BOOLEAN : CreateAccessToken(u, w)
  \/ \E u \in KeyHolders, r \in Works :
       \/ AskDeployKey(u, r)
       \/ \E f \in Prints, w \in BOOLEAN : CreateDeployKey(u, r, f, w)
       \/ \E p \in Rights : RightsChange(u, r, p)
  \/ \E k \in inForce :
       \/ RevokeOwn(k)
       \/ \E u \in KeyHolders : RevokeDeployKey(u, k)
       \/ \E r \in Works, w \in BOOLEAN : GitCommand(k, r, w) \/ LfsAuthenticate(k, r, w)
  \/ \E t \in signed : SignedTokenEnds(t)
  \/ \E r \in Works :
       \/ \E what \in {"archived", "trashed", "disabled"} : Close(r, what) \/ Reopen(r, what)
       \/ \E n \in GitPlaces : TransferTo(r, n)

CredNext == ReachNext \/ (ChangeNext /\ reached' = Unreached)

CredSpec == CredInit /\ [][CredNext]_credVars

-----------------------------------------------------------------------------
\* A public key is active in one row, of a user or of a repository, however it was
\* revoked and registered before (docs/SSH_KEYS.md).
OneHolder == \A k, m \in inForce : k.print # "none" /\ k.print = m.print => k = m

\* A git command ends in the repository it was allowed for, with everything it needed
\* still true, unless something it rests on changed while its child was starting; and a
\* repository another one has replaced under that name is the only other it can reach.
GitServesWhatIsAllowed ==
  reached.how = "git" =>
    /\ reached.found # reached.repo => "moved" \in reached.overtaken
    /\ ~reached.still => reached.overtaken # {}
    /\ "trashed" \in reached.closed => reached.overtaken \cap {"trashed", "moved"} # {}
    /\ reached.write /\ "archived" \in reached.closed =>
         reached.overtaken \cap {"archived", "moved"} # {}

\* A signed LFS token outlives the key it was made with, but reaches no repository that
\* has been moved, trashed or disabled since, nor writes to an archived one.
SignedReachesOnlyItsOwn ==
  reached.how = "lfs" =>
    /\ reached.closed \cap {"trashed", "disabled"} = {}
    /\ reached.write => "archived" \notin reached.closed
    /\ reached.found = reached.repo /\ reached.name = place[reached.found]

CredentialsSound == OneHolder /\ GitServesWhatIsAllowed /\ SignedReachesOnlyItsOwn
=============================================================================

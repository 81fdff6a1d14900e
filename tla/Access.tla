------------------------------- MODULE Access -------------------------------
(***************************************************************************)
(* Who belongs to an organization and what that lets them do to one        *)
(* repository (src/src/collaboration.mjs, organization-onboarding.mjs,     *)
(* repository-access.mjs, repository-invitations.mjs, support-access.mjs,  *)
(* plan-limits.mjs).                                                       *)
(*                                                                         *)
(* Ranks stand for roles and permissions: 0 none; role 1 developer, 2      *)
(* admin, 3 owner; permission 1 read, 2 write, 3 admin.  A handler asks    *)
(* for the caller's access, waits for the body of the request and then     *)
(* writes: `requested` holds what waits.  An invitation to the repository  *)
(* names the repository alone and stays open when it is transferred.  Two  *)
(* history variables: `late`, the grants that come from an organization the*)
(* repository had left by then, and `guests`, who was invited by the one it*)
(* is in.                                                                  *)
(***************************************************************************)
EXTENDS Integers, FiniteSets, FiniteSetsExt

CONSTANTS
  Orgs2,       \* organizations; one team each at a time
  Users,
  FirstHome,   \* the organization the repository starts in
  Operators,   \* users the instance lists as its administrators
  Seats,       \* members the plan of each organization allows
  OwnerLimit,  \* config.organizationOwnerLimit
  Invitable,   \* ranks an invitation may carry
  Grantable,   \* ranks a grant may carry
  MaxAsked     \* bound: requests whose body is awaited

ASSUME MembershipAssumption ==
  /\ FirstHome \in Orgs2 /\ Invitable \subseteq 1..2 /\ Grantable \subseteq 1..3
  /\ Seats \in [Orgs2 -> Nat \ {0}]

VARIABLES
  role,       \* org_members
  orgInvite,  \* organization_invitations that are pending: the role offered
  teams,      \* organizations whose team exists
  crew,       \* team_members of it
  home,       \* repositories.organization_id
  direct,     \* repository_collaborators
  invited,    \* repository_invitations that are pending, and who sent them from where
  teamGrant,  \* repository_team_grants
  support,    \* support_access_grants that are live: organization and operator
  operators,  \* who the instance lists now
  requested, late, guests

memberVars == <<role, orgInvite, teams, crew, home, direct, invited, teamGrant, support,
                operators, requested, late, guests>>
inviteVars == <<invited, guests>>

MemberInit ==
  /\ role = [o \in Orgs2 |-> [u \in Users |-> 0]]
  /\ orgInvite = [o \in Orgs2 |-> [u \in Users |-> 0]]
  /\ teams = {} /\ crew = [o \in Orgs2 |-> {}]
  /\ home = FirstHome
  /\ direct = [u \in Users |-> 0] /\ teamGrant = [o \in Orgs2 |-> 0]
  /\ support = {} /\ operators = Operators
  /\ requested = {} /\ late = {} /\ invited = {} /\ guests = {}

Members(o) == {u \in Users : role[o][u] > 0}

\* getEffectiveRepositoryAccess: the strongest of what the organization, a direct
\* grant, a team and, for an outsider, a support grant give.
Baseline(u) == IF role[home][u] >= 2 THEN 3 ELSE IF role[home][u] = 1 THEN 2 ELSE 0

SupportGives(u) ==
  IF role[home][u] = 0 /\ <<home, u>> \in support /\ u \in operators THEN 1 ELSE 0

Effective(u) ==
  Max({Baseline(u), direct[u], SupportGives(u)} \cup
      {teamGrant[o] : o \in {t \in teams : u \in crew[t]}})

-----------------------------------------------------------------------------
CreateOrganization(u, o) ==
  /\ Members(o) = {}
  /\ Cardinality({p \in Orgs2 : role[p][u] = 3}) < OwnerLimit
  /\ role' = [role EXCEPT ![o][u] = 3]
  /\ teams' = teams \cup {o} /\ crew' = [crew EXCEPT ![o] = {u}]
  /\ UNCHANGED <<inviteVars, orgInvite, home, direct, teamGrant, support, operators, requested, late>>

\* A new invitation revokes the pending one for the same address.
InviteMember(a, o, u, rank) ==
  /\ role[o][a] >= 2 /\ role[o][u] = 0
  /\ orgInvite' = [orgInvite EXCEPT ![o][u] = rank]
  /\ UNCHANGED <<inviteVars, role, teams, crew, home, direct, teamGrant, support, operators, requested, late>>

\* Revoked, or past its date.
InvitationEnds(o, u) ==
  /\ orgInvite[o][u] > 0
  /\ orgInvite' = [orgInvite EXCEPT ![o][u] = 0]
  /\ UNCHANGED <<inviteVars, role, teams, crew, home, direct, teamGrant, support, operators, requested, late>>

\* assertWithinPlan, in the transaction that inserts the member.
SeatFree(o) == Cardinality(Members(o)) + 1 <= Seats[o]

AcceptInvitation(u, o) ==
  /\ orgInvite[o][u] > 0
  /\ role[o][u] = 0 => SeatFree(o)
  /\ role' = [role EXCEPT ![o][u] = Max({@, orgInvite[o][u]})]
  /\ orgInvite' = [orgInvite EXCEPT ![o][u] = 0]
  /\ UNCHANGED <<inviteVars, teams, crew, home, direct, teamGrant, support, operators, requested, late>>

CreateTeam(a, o) ==
  /\ role[o][a] >= 2 /\ o \notin teams
  /\ teams' = teams \cup {o} /\ crew' = [crew EXCEPT ![o] = {a}]
  /\ UNCHANGED <<inviteVars, role, orgInvite, home, direct, teamGrant, support, operators, requested, late>>

\* Its members and its grants go by cascade.
DeleteTeam(a, o) ==
  /\ role[o][a] >= 2 /\ o \in teams
  /\ teams' = teams \ {o} /\ crew' = [crew EXCEPT ![o] = {}]
  /\ teamGrant' = [teamGrant EXCEPT ![o] = 0]
  /\ late' = late \ {<<"team", o>>}
  /\ UNCHANGED <<inviteVars, role, orgInvite, home, direct, support, operators, requested>>

AddToTeam(a, o, u) ==
  /\ role[o][a] >= 2 /\ o \in teams /\ u \in Members(o)
  /\ crew' = [crew EXCEPT ![o] = @ \cup {u}]
  /\ UNCHANGED <<inviteVars, role, orgInvite, teams, home, direct, teamGrant, support, operators, requested, late>>

RemoveFromTeam(a, o, u) ==
  /\ role[o][a] >= 2 /\ u \in crew[o]
  /\ crew' = [crew EXCEPT ![o] = @ \ {u}]
  /\ UNCHANGED <<inviteVars, role, orgInvite, teams, home, direct, teamGrant, support, operators, requested, late>>

-----------------------------------------------------------------------------
\* requireManagement, before the body: the organization it saw stays with the request.
AskToGrant(a, kind) ==
  /\ Effective(a) = 3 /\ Cardinality(requested) < MaxAsked
  /\ requested' = requested \cup {[kind |-> kind, org |-> home, by |-> a]}
  /\ UNCHANGED <<inviteVars, role, orgInvite, teams, crew, home, direct, teamGrant, support, operators, late>>

Late(org, what) == IF org = home THEN late \ {what} ELSE late \cup {what}

GrantTeam(q, rank) ==
  /\ q \in requested /\ q.kind = "team" /\ q.org \in teams
  /\ teamGrant' = [teamGrant EXCEPT ![q.org] = rank]
  /\ requested' = requested \ {q} /\ late' = Late(q.org, <<"team", q.org>>)
  /\ UNCHANGED <<inviteVars, role, orgInvite, teams, crew, home, direct, support, operators>>

GrantDirect(q, u, rank) ==
  /\ q \in requested /\ q.kind = "direct" /\ u \in Members(q.org)
  /\ direct' = [direct EXCEPT ![u] = rank]
  /\ requested' = requested \ {q} /\ late' = Late(q.org, <<"direct", u>>)
  /\ guests' = guests \ {u}
  /\ UNCHANGED <<invited, role, orgInvite, teams, crew, home, teamGrant, support, operators>>

RevokeTeamGrant(a, o) ==
  /\ Effective(a) = 3 /\ teamGrant[o] > 0
  /\ teamGrant' = [teamGrant EXCEPT ![o] = 0] /\ late' = late \ {<<"team", o>>}
  /\ UNCHANGED <<inviteVars, role, orgInvite, teams, crew, home, direct, support, operators, requested>>

RevokeDirect(a, u) ==
  /\ Effective(a) = 3 /\ direct[u] > 0
  /\ direct' = [direct EXCEPT ![u] = 0] /\ late' = late \ {<<"direct", u>>}
  /\ guests' = guests \ {u}
  /\ UNCHANGED <<invited, role, orgInvite, teams, crew, home, teamGrant, support, operators, requested>>

\* createInvitationRecord: nobody invites himself or who has a grant, and an address has
\* one invitation at a time.
InviteToRepository(q, u, rank) ==
  /\ q \in requested /\ q.kind = "invite" /\ u # q.by /\ direct[u] = 0
  /\ invited' = {i \in invited : i.who # u} \cup {[who |-> u, org |-> q.org, rank |-> rank]}
  /\ requested' = requested \ {q}
  /\ UNCHANGED <<role, orgInvite, teams, crew, home, direct, teamGrant, support, operators, late, guests>>

\* Revoked, or past its date.
RepositoryInvitationEnds(i) ==
  /\ i \in invited
  /\ invited' = invited \ {i}
  /\ UNCHANGED <<role, orgInvite, teams, crew, home, direct, teamGrant, support, operators, requested, late, guests>>

\* acceptInvitation of repository-invitations.mjs: the link opens the repository, whichever
\* organization it is in by now.
AcceptRepositoryInvitation(i) ==
  /\ i \in invited
  /\ invited' = invited \ {i}
  /\ direct' = [direct EXCEPT ![i.who] = i.rank]
  /\ late' = Late(i.org, <<"direct", i.who>>)
  /\ guests' = IF i.org = home THEN guests \cup {i.who} ELSE guests \ {i.who}
  /\ UNCHANGED <<role, orgInvite, teams, crew, home, teamGrant, support, operators, requested>>

\* Mutant: the grants of the organization's teams stay on the repository.
TeamGrantsAfterStay(o) == teamGrant

\* What transferRepository leaves of the grants.
TeamGrantsAfter(o) == [t \in Orgs2 |-> 0]
DirectAfter(o) == [u \in Users |-> IF u \in Members(o) THEN direct[u] ELSE 0]

\* The guard asks for an administrator of the organization the repository leaves,
\* the transfer for one of the organization it goes to.
Transfer(a, o) ==
  /\ o # home /\ role[home][a] >= 2 /\ role[o][a] >= 2
  /\ home' = o
  /\ teamGrant' = TeamGrantsAfter(o) /\ direct' = DirectAfter(o)
  /\ late' = {} /\ guests' = {}
  /\ UNCHANGED <<role, orgInvite, teams, crew, invited, support, operators, requested>>

-----------------------------------------------------------------------------
GrantSupport(a, o, u) ==
  /\ role[o][a] = 3 /\ u \in operators /\ u # a
  /\ support' = support \cup {<<o, u>>}
  /\ UNCHANGED <<inviteVars, role, orgInvite, teams, crew, home, direct, teamGrant, operators, requested, late>>

\* Revoked by an administrator or by the operator, or past its hours.
SupportEnds(o, u) ==
  /\ <<o, u>> \in support
  /\ support' = support \ {<<o, u>>}
  /\ UNCHANGED <<inviteVars, role, orgInvite, teams, crew, home, direct, teamGrant, operators, requested, late>>

OperatorDelisted(u) ==
  /\ u \in operators
  /\ operators' = operators \ {u}
  /\ UNCHANGED <<inviteVars, role, orgInvite, teams, crew, home, direct, teamGrant, support, requested, late>>

CollaborationNext ==
  \E a \in Users, o \in Orgs2 :
    \/ CreateOrganization(a, o) \/ AcceptInvitation(a, o) \/ InvitationEnds(o, a)
    \/ CreateTeam(a, o) \/ DeleteTeam(a, o)
    \/ \E u \in Users : AddToTeam(a, o, u) \/ RemoveFromTeam(a, o, u)
    \/ \E u \in Users, rank \in Invitable : InviteMember(a, o, u, rank)

RepositoryAccessNext ==
  \/ \E a \in Users, kind \in {"team", "direct", "invite"} : AskToGrant(a, kind)
  \/ \E a \in Users, o \in Orgs2 : RevokeTeamGrant(a, o)
  \/ \E a, u \in Users : RevokeDirect(a, u)
  \/ \E q \in requested, rank \in Grantable :
       GrantTeam(q, rank) \/ \E u \in Users : GrantDirect(q, u, rank) \/ InviteToRepository(q, u, rank)
  \/ \E i \in invited : RepositoryInvitationEnds(i) \/ AcceptRepositoryInvitation(i)

SupportNext ==
  \/ \E a, u \in Users, o \in Orgs2 : GrantSupport(a, o, u)
  \/ \E u \in Users, o \in Orgs2 : SupportEnds(o, u)
  \/ \E u \in Users : OperatorDelisted(u)

MemberNext ==
  \/ CollaborationNext \/ RepositoryAccessNext \/ SupportNext
  \/ \E a \in Users, o \in Orgs2 : Transfer(a, o)

MemberSpec == MemberInit /\ [][MemberNext]_memberVars

-----------------------------------------------------------------------------
\* Whoever reaches the repository belongs to the organization it is in now, was invited
\* to it while it was there, or was let in for support by that organization: no team,
\* direct grant or support grant of an organization it has left still opens it.  The
\* exceptions are what was authorised before the transfer and written after it: a grant
\* whose request waited, and an invitation accepted when the repository had gone.
AccessBelongs ==
  \A u \in Users : Effective(u) > 0 =>
    \/ u \in Members(home)
    \/ direct[u] > 0 /\ u \in guests
    \/ <<home, u>> \in support /\ u \in operators
    \/ <<"direct", u>> \in late
    \/ \E o \in teams : u \in crew[o] /\ <<"team", o>> \in late

\* docs/REPOSITORY_LIFECYCLE.md: a transfer keeps the direct grants of the target's
\* members alone.  Does not hold: an invitation of the organization before still opens it.
TransferLeavesOutsidersBehind ==
  \A u \in Users : direct[u] > 0 => u \in Members(home) \cup guests

\* Invitations are created freely; the seat is counted when one is accepted, and no
\* number of outstanding invitations takes an organization past its plan.
SeatsHold == \A o \in Orgs2 : Cardinality(Members(o)) <= Seats[o]

MembershipSound == AccessBelongs /\ SeatsHold

-----------------------------------------------------------------------------
(***************************************************************************)
(* People outside the organization on one of its repositories, and the     *)
(* reviews of their access (src/src/repository-invitations.mjs,            *)
(* external-access-invitation-duration.mjs, external-access-expiry-guard.mjs,*)
(* external-access-reviews.mjs, external-collaborator-lifecycle-guard.mjs).*)
(*                                                                         *)
(* Days are counted from 0.  An organization administrator is always       *)
(* there; a repository administrator is an external whose grant says       *)
(* "admin", and may write what was authorised before the grant went        *)
(* (`admitted`).  In the database two triggers give a date to every grant  *)
(* without one whose holder accepted an invitation and is no member; what  *)
(* was accepted before is without one until it is written again (`old`).   *)
(***************************************************************************)
CONSTANTS
  Externals,   \* people with an account
  Joiners,     \* those of them who may become members
  Veterans,    \* those who may have had access before there were ends
  Offers,      \* permissions an invitation may carry
  GrantDays,   \* how long access may be given for
  InviteDays,  \* how long an invitation stays open
  LastDay      \* bound: the last day of the model

ASSUME ExternalAssumption ==
  /\ Veterans \subseteq Externals
  /\ GrantDays \subseteq Nat \ {0} /\ \E longest \in GrantDays : \A d \in GrantDays : d <= longest
  /\ InviteDays \in Nat /\ LastDay \in Nat

VARIABLES
  today,
  joined,   \* who is a member of the organization by now
  trashed,  \* the repository is in the trash organization, which has no members
  invite,   \* the latest invitation of each address
  given,    \* what the latest accepted invitation gave: its last day, or NotGiven
  access,   \* repository_collaborators
  archive,  \* external_access_grant_history of kind expired, not restored
  review,   \* a campaign is open
  items,    \* the people whose item is pending
  admitted, \* repository administrators whose request waits for its body
  old,      \* history: whose grant is still the one from before there were ends
  stuck     \* history: a purge took the last items of a campaign

externalVars == <<today, joined, trashed, invite, given, access, archive, review, items,
                  admitted, old, stuck>>

Forever  == -1    \* expires_at IS NULL
NotGiven == -2
NoAccess == [perm |-> "none", ends |-> Forever]
NoInvite == [st |-> "none", perm |-> "none", days |-> 0, until |-> 0]
Perms    == {"write", "admin"}

ExternalInit ==
  /\ today = 0 /\ joined = {} /\ trashed = FALSE
  /\ invite = [p \in Externals |-> NoInvite]
  /\ old \in SUBSET Veterans
  /\ given \in [Externals -> {NotGiven} \cup 0 .. LastDay]
  /\ access \in [Externals -> {NoAccess} \cup [perm : Perms, ends : {Forever}]]
  /\ \A p \in Externals : (p \in old) = (given[p] # NotGiven) /\ (p \in old) = (access[p] # NoAccess)
  /\ archive = {} /\ review = FALSE /\ items = {} /\ admitted = {} /\ stuck = FALSE

Holds(p)    == access[p] # NoAccess
IsMember(p) == p \in joined /\ ~trashed
Due(p)      == Holds(p) /\ ~IsMember(p) /\ access[p].ends # Forever /\ access[p].ends <= today

Served      == ~\E p \in Externals : Due(p)

\* Who is writing: the organization's administrator, or an external who was one of the
\* repository's when the request began.
Actors == {"boss"} \cup admitted
Writes(a) == Served /\ a \in Actors /\ (trashed => a \in admitted) /\ admitted' = admitted \ {a}

\* Mutant: there is no trigger for UPDATE OF permission.
DatedOnInsert(p, g, promised) == g

\* trg_external_invitation_grant_insert and _update.
Dated(p, g, promised) ==
  IF g.ends = Forever /\ promised # NotGiven /\ ~IsMember(p)
    THEN [g EXCEPT !.ends = promised] ELSE g

Put(p, g) == access' = [access EXCEPT ![p] = Dated(p, g, given[p])]

-----------------------------------------------------------------------------
\* Every HTTP request and every SSH command expires what is due before it is served.
ExpireGrants ==
  /\ \E p \in Externals : Due(p)
  /\ access' = [p \in Externals |-> IF Due(p) THEN NoAccess ELSE access[p]]
  /\ archive' = archive \cup {[who |-> p, perm |-> access[p].perm] : p \in {q \in Externals : Due(q)}}
  /\ UNCHANGED <<today, joined, trashed, invite, given, review, items, admitted>>

AskAsAdmin(p) ==
  /\ Served /\ ~trashed
  /\ access[p].perm = "admin"
  /\ admitted' = admitted \cup {p}
  /\ UNCHANGED <<today, joined, trashed, invite, given, access, archive, review, items>>

GiveUp(p) ==
  /\ p \in admitted
  /\ admitted' = admitted \ {p}
  /\ UNCHANGED <<today, joined, trashed, invite, given, access, archive, review, items>>

Invite(a, p, perm) ==
  /\ Writes(a) /\ a # p
  /\ ~Holds(p)
  /\ invite' = [invite EXCEPT ![p] =
                 [st |-> "pending", perm |-> perm, days |-> Max(GrantDays), until |-> today + InviteDays]]
  /\ UNCHANGED <<today, joined, trashed, given, access, archive, review, items>>

RevokeInvite(p) ==
  /\ invite[p].st = "pending" /\ ~trashed
  /\ invite' = [invite EXCEPT ![p].st = "revoked"]
  /\ UNCHANGED <<today, joined, trashed, given, access, archive, review, items, admitted>>

\* A revoked or outdated invitation may be sent again: a new one with the old permission.
\* The old one is revoked also when the new one is refused.
ResendInvite(a, p) ==
  /\ Writes(a)
  /\ invite[p].st \in {"pending", "revoked"}
  /\ invite' = [invite EXCEPT ![p] =
        IF a = p \/ Holds(p) THEN [@ EXCEPT !.st = "revoked"]
        ELSE [@ EXCEPT !.st = "pending", !.days = Max(GrantDays), !.until = today + InviteDays]]
  /\ UNCHANGED <<today, joined, trashed, given, access, archive, review, items>>

SetInviteDays(a, p, d) ==
  /\ Writes(a)
  /\ invite[p].st = "pending"
  /\ invite' = [invite EXCEPT ![p].days = d]
  /\ UNCHANGED <<today, joined, trashed, given, access, archive, review, items>>

\* Pending, not past its date, claimed by one UPDATE; a grant that is there keeps its date.
Open(p) == invite[p].st = "pending" /\ today < invite[p].until

AcceptInvite(p) ==
  LET ends == today + invite[p].days IN
  /\ Served /\ ~trashed
  /\ Open(p)
  /\ invite' = [invite EXCEPT ![p].st = "accepted"]
  /\ given' = [given EXCEPT ![p] = ends]
  /\ access' = [access EXCEPT ![p] =
                 Dated(p, [perm |-> invite[p].perm, ends |-> access[p].ends], ends)]
  /\ UNCHANGED <<today, joined, trashed, archive, review, items, admitted>>

-----------------------------------------------------------------------------
\* PATCH collaborators/:userId of repository-invitations.
SetPermission(a, p, perm) ==
  /\ Writes(a)
  /\ Holds(p)
  /\ Put(p, [access[p] EXCEPT !.perm = perm])
  /\ UNCHANGED <<today, joined, trashed, invite, given, archive, review, items>>

RemoveAccess(a, p) ==
  /\ Served /\ ~trashed /\ (a # "boss" => access[a].perm = "admin")
  /\ Holds(p)
  /\ access' = [access EXCEPT ![p] = NoAccess]
  /\ UNCHANGED <<today, joined, trashed, invite, given, archive, review, items, admitted>>

\* A member is given access without a date.
GrantMember(p, perm) ==
  /\ Served /\ ~trashed /\ p \in joined
  /\ Put(p, [perm |-> perm, ends |-> access[p].ends])
  /\ UNCHANGED <<today, joined, trashed, invite, given, archive, review, items, admitted>>

Until(d) == IF d = Forever THEN Forever ELSE today + d

\* updateExternalGrant: only the organization's administrator certifies "admin" and may
\* make a grant permanent, and nobody else extends their own.
UpdateGrant(a, p, perm, d) ==
  /\ Writes(a)
  /\ Holds(p) /\ ~IsMember(p)
  /\ a # "boss" => a # p /\ perm # "admin" /\ access[p].perm # "admin" /\ d # Forever
  /\ Put(p, [perm |-> perm, ends |-> Until(d)])
  /\ UNCHANGED <<today, joined, trashed, invite, given, archive, review, items>>

\* restoreExpiredGrant, whatever access its holder has by now.
RestoreGrant(a, h, perm, d) ==
  /\ Writes(a)
  /\ h \in archive /\ h.who \notin joined
  /\ a # "boss" => a # h.who /\ perm # "admin"
  /\ Put(h.who, [perm |-> perm, ends |-> today + d])
  /\ archive' = archive \ {h}
  /\ UNCHANGED <<today, joined, trashed, invite, given, review, items>>

-----------------------------------------------------------------------------
Reviewable == {p \in Externals : Holds(p) /\ p \notin joined /\ ~Due(p)}

CreateCampaign ==
  /\ Served /\ ~trashed /\ ~review
  /\ Reviewable # {}
  /\ review' = TRUE /\ items' = Reviewable
  /\ UNCHANGED <<today, joined, trashed, invite, given, access, archive, admitted>>

Completes(rest) == rest = {}

Decided(p) ==
  /\ items' = items \ {p}
  /\ review' = ~Completes(items \ {p})

\* decideReviewItem of the organization's administrator; an item of a repository that is
\* not in the organization is not found.
Decide(p, decision, d) ==
  /\ Served /\ ~trashed /\ p \in items
  /\ \/ decision = "revoke" /\ access' = [access EXCEPT ![p] = NoAccess]
     \/ decision = "keep" /\ Holds(p) /\ Put(p, access[p])
     \/ decision = "renew" /\ Holds(p) /\ Put(p, [access[p] EXCEPT !.ends = today + d])
     \/ /\ decision = "reduce" /\ access[p].perm = "admin"
        /\ \E e \in {access[p].ends, today + d} : Put(p, [perm |-> "write", ends |-> e])
  /\ Decided(p)
  /\ UNCHANGED <<today, joined, trashed, invite, given, archive, admitted>>

-----------------------------------------------------------------------------
BecomesMember(p) ==
  /\ p \in Joiners \ joined
  /\ joined' = joined \cup {p}
  /\ UNCHANGED <<today, trashed, invite, given, access, archive, review, items, admitted>>

\* purgeRepository: invitations, grants, history and items go by cascade, the campaign
\* stays as it is.  Another repository of the organization takes its place.
Purge ==
  /\ trashed /\ trashed' = FALSE
  /\ invite' = [p \in Externals |-> NoInvite] /\ given' = [p \in Externals |-> NotGiven]
  /\ access' = [p \in Externals |-> NoAccess]
  /\ archive' = {} /\ items' = {} /\ admitted' = {}
  /\ stuck' = (stuck \/ items # {})
  /\ UNCHANGED <<today, joined, review>>

\* The lifecycle guard asks for the organization's administrator.
TrashOrRestore ==
  /\ trashed' = ~trashed
  /\ UNCHANGED <<today, joined, invite, given, access, archive, review, items, admitted>>

NextDay ==
  /\ today < LastDay
  /\ today' = today + 1
  /\ UNCHANGED <<joined, trashed, invite, given, access, archive, review, items, admitted>>

ServiceNext ==
  \/ ExpireGrants \/ CreateCampaign \/ TrashOrRestore \/ NextDay
  \/ \E p \in Externals :
       \/ AskAsAdmin(p) \/ GiveUp(p) \/ RevokeInvite(p) \/ AcceptInvite(p) \/ BecomesMember(p)
       \/ \E perm \in Perms : GrantMember(p, perm)
       \/ \E a \in Actors \cup Externals : RemoveAccess(a, p)
       \/ \E decision \in {"keep", "renew", "reduce", "revoke"}, d \in GrantDays : Decide(p, decision, d)
       \/ \E a \in Actors :
            \/ ResendInvite(a, p)
            \/ \E d \in GrantDays : SetInviteDays(a, p, d)
            \/ \E perm \in Perms :
                 \/ perm \in Offers /\ Invite(a, p, perm)
                 \/ SetPermission(a, p, perm)
                 \/ \E d \in GrantDays \cup {Forever} : UpdateGrant(a, p, perm, d)
  \/ \E h \in archive, a \in Actors, perm \in Perms, d \in GrantDays : RestoreGrant(a, h, perm, d)

ExternalNext ==
  /\ Purge \/ (ServiceNext /\ UNCHANGED stuck)
  /\ old' = {p \in old : access'[p] = access[p]}

ExternalSpec == ExternalInit /\ [][ExternalNext]_externalVars

-----------------------------------------------------------------------------
\* docs/EXTERNAL_ACCESS_REVIEWS.md: access of an outsider has an end, except a grant from
\* before that was not written since.  No order of inviting, accepting, changing, renewing,
\* reviewing, restoring, trashing the repository and joining the organization leaves an
\* outsider with access that never ends: not even an administrator's "permanent", which the
\* trigger dates again.
OutsidersHaveAnEnd ==
  \A p \in Externals : Holds(p) /\ p \notin joined /\ access[p].ends = Forever => p \in old

\* No campaign is complete while an item of it is undecided, and none stays open when all
\* are decided, unless a purge took the last of them: only a decision completes one.
ReviewsComplete ==
  /\ items # {} => review
  /\ review /\ items = {} => stuck

\* docs/EXTERNAL_ACCESS_REVIEWS.md: a campaign becomes complete after every item has a
\* decision.  Does not hold: one whose repository was purged stays open, and no other may start.
ReviewsEnd == review => items # {}

ExternalSound == OutsidersHaveAnEnd /\ ReviewsComplete

-----------------------------------------------------------------------------
\* Membership, teams, grants and external access give what they say, to whom they
\* say, until the day they say.
AccessSound == MembershipSound /\ ExternalSound
=============================================================================

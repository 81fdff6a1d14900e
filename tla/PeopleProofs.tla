----------------------------- MODULE PeopleProofs -----------------------------
(***************************************************************************)
(* People and their organizations: proofs about Access, Issues,            *)
(* Notifications, SignIn, Identities and Usage, for any number of users,   *)
(* organizations, issues, processes, devices, requests, uploads and        *)
(* readings.  The state spaces share no variable; each has its own         *)
(* invariant and its own part.                                             *)
(***************************************************************************)
EXTENDS MCPeople, FiniteSetTheorems, SequenceTheorems, WellFoundedInduction, TLAPS

(***************************************************************************)
(* Membership and grants: what a user has on the repository comes from     *)
(* where the repository is, or from what was written late.                 *)
(***************************************************************************)
LEMMA MaxOfTwo ==
  ASSUME NEW m \in Nat, NEW n \in Nat
  PROVE  Max({m, n}) \in {m, n} /\ Max({m, n}) >= m /\ Max({m, n}) >= n
<1>1. \E x \in {m, n} : \A y \in {m, n} : x >= y
  OBVIOUS
<1> QED BY <1>1 DEF Max

LEMMA MaxOfZero == Max({0}) = 0
<1>1. \E x \in {0} : \A y \in {0} : x >= y
  OBVIOUS
<1> QED BY <1>1 DEF Max

MemberType ==
  /\ role \in [Orgs2 -> [Users -> 0 .. 3]] /\ orgInvite \in [Orgs2 -> [Users -> 0 .. 2]]
  /\ teams \subseteq Orgs2 /\ crew \in [Orgs2 -> SUBSET Users] /\ home \in Orgs2
  /\ direct \in [Users -> 0 .. 3] /\ teamGrant \in [Orgs2 -> 0 .. 3]
  /\ requested \subseteq [kind : {"team", "direct", "invite"}, org : Orgs2, by : Users]
  /\ invited \subseteq [who : Users, org : Orgs2, rank : 0 .. 3]

CrewsAreMembers == \A o \in Orgs2 : crew[o] \subseteq Members(o)

GrantsAreOfHome ==
  /\ \A u \in Users : direct[u] > 0 => u \in Members(home) \/ u \in guests \/ <<"direct", u>> \in late
  /\ \A o \in Orgs2 : teamGrant[o] > 0 => o = home \/ <<"team", o>> \in late

SeatsTaken == \A o \in Orgs2 : IsFiniteSet(Members(o)) /\ Cardinality(Members(o)) <= Seats[o]

MemberInv == MemberType /\ CrewsAreMembers /\ GrantsAreOfHome /\ SeatsTaken

\* Whoever has none of the five ways in gets nothing from any of the four sources.
LEMMA AccessFollows == MemberInv => MembershipSound
<1> SUFFICES ASSUME MemberInv PROVE AccessBelongs
  BY DEF MembershipSound, SeatsHold, MemberInv, SeatsTaken
<1> SUFFICES ASSUME NEW u \in Users,
                    u \notin Members(home), ~(direct[u] > 0 /\ u \in guests), ~(<<home, u>> \in support /\ u \in operators),
                    <<"direct", u>> \notin late,
                    ~ \E o \in teams : u \in crew[o] /\ <<"team", o>> \in late
             PROVE  Effective(u) = 0
  BY DEF AccessBelongs
<1>1. home \in Orgs2 /\ teams \subseteq Orgs2 /\ role[home][u] \in 0 .. 3 /\ direct[u] \in 0 .. 3
  BY DEF MemberInv, MemberType
<1>2. role[home][u] = 0
  BY <1>1 DEF Members
<1>3. direct[u] = 0
  BY <1>1 DEF MemberInv, GrantsAreOfHome
<1>4. Baseline(u) = 0 /\ SupportGives(u) = 0
  BY <1>2 DEF Baseline, SupportGives
<1>5. ASSUME NEW o \in teams, u \in crew[o] PROVE teamGrant[o] = 0
  <2>1. teamGrant[o] \in 0 .. 3
    BY <1>1 DEF MemberInv, MemberType
  <2>2. <<"team", o>> \notin late /\ o # home
    BY <1>1, <1>5 DEF MemberInv, CrewsAreMembers
  <2> QED BY <1>1, <2>1, <2>2 DEF MemberInv, GrantsAreOfHome
<1>6. {Baseline(u), direct[u], SupportGives(u)} \cup
      {teamGrant[o] : o \in {t \in teams : u \in crew[t]}} = {0}
  BY <1>3, <1>4, <1>5
<1> QED BY <1>6, MaxOfZero DEF Effective

\* What none of the other variables tells apart.
LEMMA GrantsStay ==
  ASSUME MemberInv, UNCHANGED <<role, crew, home, direct, teamGrant, late, guests>>,
         MemberType'
  PROVE  MemberInv'
BY DEF MemberInv, CrewsAreMembers, GrantsAreOfHome, SeatsTaken, Members

\* Members only come: what rests on them stays.
LEMMA GrantsStandAsMembersCome ==
  ASSUME MemberInv, UNCHANGED <<home, direct, teamGrant, late, guests>>, MemberType',
         \A o \in Orgs2 : Members(o) \subseteq Members(o)'
  PROVE  GrantsAreOfHome'
BY DEF MemberInv, MemberType, GrantsAreOfHome

LEMMA CollaborationStep == MemberInv /\ CollaborationNext => MemberInv'
<1> SUFFICES ASSUME MemberInv, NEW a \in Users, NEW o \in Orgs2,
                    \/ CreateOrganization(a, o) \/ AcceptInvitation(a, o) \/ InvitationEnds(o, a)
                    \/ CreateTeam(a, o) \/ DeleteTeam(a, o)
                    \/ \E u \in Users : AddToTeam(a, o, u) \/ RemoveFromTeam(a, o, u)
                    \/ \E u \in Users, rank \in Invitable : InviteMember(a, o, u, rank)
             PROVE  MemberInv'
  BY DEF CollaborationNext
<1> USE MembershipAssumption DEF inviteVars
<1>1. CASE CreateOrganization(a, o)
  <2>1. MemberType'
    BY <1>1 DEF CreateOrganization, MemberInv, MemberType
  <2>2. Members(o)' = {a} /\ Members(o) = {} /\ \A p \in Orgs2 \ {o} : Members(p)' = Members(p)
    BY <1>1 DEF CreateOrganization, Members, MemberInv, MemberType
  <2>3. CrewsAreMembers'
    BY <1>1, <2>2 DEF CreateOrganization, MemberInv, MemberType, CrewsAreMembers
  <2>4. \A p \in Orgs2 : Members(p) \subseteq Members(p)'
    BY <2>2
  <2>5. GrantsAreOfHome'
    BY <1>1, <2>1, <2>4, GrantsStandAsMembersCome DEF CreateOrganization
  <2>6. SeatsTaken'
    <3>1. IsFiniteSet({a}) /\ Cardinality({a}) = 1
      BY FS_Singleton
    <3> QED BY <2>2, <3>1 DEF MemberInv, SeatsTaken
  <2> QED BY <2>1, <2>3, <2>5, <2>6 DEF MemberInv
<1>2. CASE AcceptInvitation(a, o)
  <2>0. Max({role[o][a], orgInvite[o][a]}) \in 1 .. 3
    <3>1. role[o][a] \in 0 .. 3 /\ orgInvite[o][a] \in 0 .. 2
      BY DEF MemberInv, MemberType
    <3>2. orgInvite[o][a] > 0
      BY <1>2 DEF AcceptInvitation
    <3> DEFINE m == role[o][a]
               n == orgInvite[o][a]
    <3>3. /\ Max({m, n}) \in {m, n}
          /\ Max({m, n}) >= n
      <4>1. m \in Nat /\ n \in Nat
        BY <3>1
      <4> HIDE DEF m, n
      <4> QED BY <4>1, MaxOfTwo
    <3> QED BY <3>1, <3>2, <3>3
  <2>1. MemberType'
    BY <1>2, <2>0 DEF AcceptInvitation, MemberInv, MemberType
  <2>2. Members(o)' = Members(o) \cup {a} /\ \A p \in Orgs2 \ {o} : Members(p)' = Members(p)
    BY <1>2, <2>0 DEF AcceptInvitation, Members, MemberInv, MemberType
  <2>3. CrewsAreMembers'
    <3>1. crew' = crew /\ \A p \in Orgs2 : crew[p] \subseteq Members(p)
      BY <1>2 DEF AcceptInvitation, MemberInv, CrewsAreMembers
    <3>2. \A p \in Orgs2 : Members(p) \subseteq Members(p)'
      BY <2>2
    <3> QED BY <3>1, <3>2 DEF CrewsAreMembers
  <2>4. GrantsAreOfHome'
    BY <1>2, <2>1, <2>2, GrantsStandAsMembersCome DEF AcceptInvitation
  <2>5. SeatsTaken'
    <3>1. IsFiniteSet(Members(o)) /\ Cardinality(Members(o)) <= Seats[o] /\ Cardinality(Members(o)) \in Nat
      BY FS_CardinalityType DEF MemberInv, SeatsTaken
    <3>2. /\ IsFiniteSet(Members(o) \cup {a})
          /\ Cardinality(Members(o) \cup {a}) =
               IF a \in Members(o) THEN Cardinality(Members(o)) ELSE Cardinality(Members(o)) + 1
      BY <3>1, FS_AddElement
    <3>3. a \notin Members(o) => Cardinality(Members(o)) + 1 <= Seats[o]
      <4>1. role[o][a] \in 0 .. 3
        BY DEF MemberInv, MemberType
      <4>2. a \notin Members(o) => role[o][a] = 0
        BY <4>1 DEF Members
      <4> QED BY <1>2, <4>2 DEF AcceptInvitation, SeatFree
    <3> QED BY <2>2, <3>1, <3>2, <3>3 DEF MemberInv, SeatsTaken
  <2> QED BY <2>1, <2>3, <2>4, <2>5 DEF MemberInv
<1>3. CASE InvitationEnds(o, a)
  BY <1>3, GrantsStay DEF InvitationEnds, MemberInv, MemberType
<1>4. CASE CreateTeam(a, o)
  <2>1. a \in Members(o) /\ \A p \in Orgs2 : Members(p)' = Members(p)
    <3>1. role[o][a] \in 0 .. 3
      BY DEF MemberInv, MemberType
    <3> QED BY <1>4, <3>1 DEF CreateTeam, Members
  <2>2. MemberType' /\ CrewsAreMembers'
    BY <1>4, <2>1 DEF CreateTeam, MemberInv, MemberType, CrewsAreMembers
  <2> QED BY <1>4, <2>1, <2>2 DEF CreateTeam, MemberInv, MemberType, GrantsAreOfHome, SeatsTaken
<1>5. CASE DeleteTeam(a, o)
  <2>1. UNCHANGED <<role, home>> /\ \A p \in Orgs2 : Members(p)' = Members(p)
    BY <1>5 DEF DeleteTeam, Members
  <2>2. MemberType'
    BY <1>5 DEF DeleteTeam, MemberInv, MemberType
  <2>3. CrewsAreMembers'
    BY <1>5, <2>1 DEF DeleteTeam, MemberInv, MemberType, CrewsAreMembers
  <2>4. GrantsAreOfHome'
    BY <1>5, <2>1 DEF DeleteTeam, MemberInv, MemberType, GrantsAreOfHome
  <2> QED BY <2>1, <2>2, <2>3, <2>4, <1>5 DEF DeleteTeam, MemberInv, SeatsTaken
<1>6. ASSUME NEW u \in Users, AddToTeam(a, o, u) \/ RemoveFromTeam(a, o, u) PROVE MemberInv'
  <2>1. \A p \in Orgs2 : Members(p)' = Members(p)
    BY <1>6 DEF AddToTeam, RemoveFromTeam, Members
  <2>2. MemberType'
    BY <1>6 DEF AddToTeam, RemoveFromTeam, MemberInv, MemberType
  <2>3. u \in Members(o) \/ RemoveFromTeam(a, o, u)
    BY <1>6 DEF AddToTeam
  <2>4. \A p \in Orgs2 : crew'[p] \subseteq crew[p] \/ (p = o /\ u \in Members(o) /\ crew'[p] = crew[p] \cup {u})
    BY <1>6, <2>3 DEF AddToTeam, RemoveFromTeam, MemberInv, MemberType
  <2>5. CrewsAreMembers'
    BY <2>1, <2>4 DEF CrewsAreMembers, MemberInv
  <2> QED BY <2>5, <1>6, <2>1, <2>2 DEF AddToTeam, RemoveFromTeam, MemberInv, MemberType, GrantsAreOfHome, SeatsTaken
<1>7. ASSUME NEW u \in Users, NEW rank \in Invitable, InviteMember(a, o, u, rank) PROVE MemberInv'
  BY <1>7, GrantsStay DEF InviteMember, MemberInv, MemberType
<1> QED BY <1>1, <1>2, <1>3, <1>4, <1>5, <1>6, <1>7

LEMMA AccessStep == MemberInv /\ RepositoryAccessNext => MemberInv'
<1> USE MembershipAssumption DEF MemberInv, MemberType, GrantsAreOfHome, inviteVars
<1>1. ASSUME MemberInv, NEW a \in Users, NEW kind \in {"team", "direct", "invite"}, AskToGrant(a, kind)
      PROVE  MemberInv'
  BY <1>1, GrantsStay DEF AskToGrant
<1>2. ASSUME MemberInv, NEW a \in Users, NEW o \in Orgs2, RevokeTeamGrant(a, o) PROVE MemberInv'
  <2>1. UNCHANGED <<role, crew, home>> /\ \A p \in Orgs2 : Members(p)' = Members(p)
    BY <1>2 DEF RevokeTeamGrant, Members
  <2>2. MemberType'
    BY <1>2 DEF RevokeTeamGrant
  <2>3. GrantsAreOfHome'
    BY <1>2, <2>1 DEF RevokeTeamGrant
  <2> QED BY <1>2, <2>1, <2>2, <2>3 DEF CrewsAreMembers, SeatsTaken
<1>3. ASSUME MemberInv, NEW a \in Users, NEW u \in Users, RevokeDirect(a, u) PROVE MemberInv'
  <2>1. UNCHANGED <<role, crew, home>> /\ \A p \in Orgs2 : Members(p)' = Members(p)
    BY <1>3 DEF RevokeDirect, Members
  <2>2. MemberType'
    BY <1>3 DEF RevokeDirect
  <2>3. GrantsAreOfHome'
    BY <1>3, <2>1 DEF RevokeDirect
  <2> QED BY <1>3, <2>1, <2>2, <2>3 DEF CrewsAreMembers, SeatsTaken
<1>4. ASSUME MemberInv, NEW q \in requested, NEW rank \in Grantable, GrantTeam(q, rank) PROVE MemberInv'
  <2>1. UNCHANGED <<role, crew, home>> /\ \A p \in Orgs2 : Members(p)' = Members(p)
    BY <1>4 DEF GrantTeam, Members
  <2>2. MemberType'
    BY <1>4 DEF GrantTeam
  <2>3. GrantsAreOfHome'
    BY <1>4, <2>1 DEF GrantTeam, Late
  <2> QED BY <1>4, <2>1, <2>2, <2>3 DEF CrewsAreMembers, SeatsTaken
<1>5. ASSUME MemberInv, NEW q \in requested, NEW rank \in Grantable, NEW u \in Users, GrantDirect(q, u, rank)
      PROVE  MemberInv'
  <2>1. UNCHANGED <<role, crew, home>> /\ \A p \in Orgs2 : Members(p)' = Members(p)
    BY <1>5 DEF GrantDirect, Members
  <2>2. MemberType'
    BY <1>5 DEF GrantDirect
  <2>3. GrantsAreOfHome'
    BY <1>5, <2>1 DEF GrantDirect, Late
  <2> QED BY <1>5, <2>1, <2>2, <2>3 DEF CrewsAreMembers, SeatsTaken
<1>6. ASSUME MemberInv, NEW q \in requested, NEW rank \in Grantable, NEW u \in Users,
             InviteToRepository(q, u, rank)
      PROVE  MemberInv'
  <2>1. [who |-> u, org |-> q.org, rank |-> rank] \in [who : Users, org : Orgs2, rank : 0 .. 3]
    BY <1>6
  <2>2. MemberType'
    BY <1>6, <2>1 DEF InviteToRepository
  <2> QED BY <1>6, <2>2, GrantsStay DEF InviteToRepository
<1>7. ASSUME MemberInv, NEW i \in invited, RepositoryInvitationEnds(i) PROVE MemberInv'
  BY <1>7, GrantsStay DEF RepositoryInvitationEnds
<1>8. ASSUME MemberInv, NEW i \in invited, AcceptRepositoryInvitation(i) PROVE MemberInv'
  <2>1. UNCHANGED <<role, crew, home>> /\ \A p \in Orgs2 : Members(p)' = Members(p)
    BY <1>8 DEF AcceptRepositoryInvitation, Members
  <2>2. MemberType'
    BY <1>8 DEF AcceptRepositoryInvitation
  <2>3. GrantsAreOfHome'
    BY <1>8, <2>1 DEF AcceptRepositoryInvitation, Late
  <2> QED BY <1>8, <2>1, <2>2, <2>3 DEF CrewsAreMembers, SeatsTaken
<1> QED BY <1>1, <1>2, <1>3, <1>4, <1>5, <1>6, <1>7, <1>8 DEF RepositoryAccessNext

LEMMA MemberStep == MemberInv /\ [MemberNext]_memberVars => MemberInv'
<1>1. ASSUME MemberInv, SupportNext PROVE MemberInv'
  BY <1>1, GrantsStay DEF SupportNext, GrantSupport, SupportEnds, OperatorDelisted, inviteVars, MemberInv, MemberType
<1>2. ASSUME MemberInv, NEW a \in Users, NEW o \in Orgs2, Transfer(a, o) PROVE MemberInv'
  <2>1. UNCHANGED <<role, crew>> /\ home' = o /\ \A p \in Orgs2 : Members(p)' = Members(p)
    BY <1>2 DEF Transfer, Members
  <2>2. MemberType'
    BY <1>2 DEF Transfer, TeamGrantsAfter, DirectAfter, MemberInv, MemberType
  <2>3. GrantsAreOfHome'
    BY <1>2, <2>1 DEF Transfer, TeamGrantsAfter, DirectAfter, MemberInv, MemberType, GrantsAreOfHome
  <2> QED BY <1>2, <2>1, <2>2, <2>3 DEF MemberInv, CrewsAreMembers, SeatsTaken
<1>3. ASSUME MemberInv, UNCHANGED memberVars PROVE MemberInv'
  BY <1>3 DEF memberVars, MemberInv, MemberType, CrewsAreMembers, GrantsAreOfHome, SeatsTaken, Members
<1> QED BY <1>1, <1>2, <1>3, CollaborationStep, AccessStep DEF MemberNext

\* Whoever reaches the repository belongs to the organization it is in, was invited to it
\* there, was let in for support, or holds what was written or accepted after a transfer on
\* a permission from before;
\* and no organization has more members than its plan has seats, however many invitations
\* are out (repository-access.mjs, collaboration.mjs, plan-limits.mjs).
THEOREM MembershipHolds == MemberSpec => []MembershipSound
<1>1. MemberInit => MemberInv
  <2> SUFFICES ASSUME MemberInit PROVE MemberInv
    OBVIOUS
  <2>1. \A o \in Orgs2 : Members(o) = {}
    BY DEF MemberInit, Members
  <2>2. IsFiniteSet({}) /\ Cardinality({}) = 0
    BY FS_EmptySet
  <2>3. MemberType
    BY MembershipAssumption DEF MemberInit, MemberType
  <2>4. CrewsAreMembers /\ GrantsAreOfHome
    BY DEF MemberInit, CrewsAreMembers, GrantsAreOfHome
  <2>5. SeatsTaken
    BY <2>1, <2>2, MembershipAssumption DEF SeatsTaken
  <2> QED BY <2>1, <2>2, <2>3, <2>4, <2>5 DEF MemberInv
<1> QED BY <1>1, MemberStep, AccessFollows, PTL DEF MemberSpec

(***************************************************************************)
(* External access: a grant of somebody from outside comes from an         *)
(* invitation that was accepted, and what that gave has a last day.        *)
(***************************************************************************)
Invitation == [st : {"none", "pending", "revoked", "accepted"}, perm : Perms \cup {"none"},
               days : Nat, until : Nat]
Grant == [perm : Perms \cup {"none"}, ends : Nat \cup {Forever}]

ExternalType ==
  /\ today \in Nat /\ invite \in [Externals -> Invitation]
  /\ given \in [Externals -> Nat \cup {NotGiven}] /\ access \in [Externals -> Grant]
  /\ archive \subseteq [who : Externals, perm : Perms \cup {"none"}]

OutsidersWereInvited ==
  /\ \A p \in Externals : Holds(p) /\ p \notin joined => given[p] # NotGiven
  /\ \A h \in archive : h.who \notin joined => given[h.who] # NotGiven

\* What every action but a purge does to the history variables.
Ages == old' = {p \in old : access'[p] = access[p]} /\ UNCHANGED stuck

ExternalInv == ExternalType /\ OutsidersHaveAnEnd /\ OutsidersWereInvited /\ ReviewsComplete

LEMMA LongestIsOffered == Max(GrantDays) \in GrantDays /\ GrantDays \subseteq Nat \ {0}
<1>1. \E x \in GrantDays : \A y \in GrantDays : x >= y
  BY ExternalAssumption
<1> QED BY <1>1, ExternalAssumption DEF Max

\* The trigger leaves no grant of an outsider without a day, given what it is promised.
LEMMA DatedHasAnEnd ==
  ASSUME NEW p, NEW g \in Grant, NEW promised \in Nat \cup {NotGiven}
  PROVE  /\ Dated(p, g, promised) \in Grant
         /\ p \notin joined /\ (promised # NotGiven \/ g.ends # Forever) => Dated(p, g, promised).ends # Forever
BY DEF Dated, Grant, IsMember, Forever, NotGiven

\* A grant of an outsider that changes goes or has an end.
LEMMA EndsStand ==
  ASSUME OutsidersHaveAnEnd, old' = {p \in old : access'[p] = access[p]}, joined \subseteq joined',
         \A p \in Externals : \/ access'[p] = access[p] \/ access'[p] = NoAccess
                             \/ p \in joined' \/ access'[p].ends # Forever
  PROVE  OutsidersHaveAnEnd'
BY DEF OutsidersHaveAnEnd, Holds

\* One grant is written, of somebody who had been invited or is a member.
LEMMA PutStands ==
  ASSUME ExternalInv, Ages, NEW p \in Externals, NEW g \in Grant, Put(p, g),
         UNCHANGED <<today, joined, given>>, archive' \subseteq archive,
         p \in joined \/ given[p] # NotGiven,
         invite' \in [Externals -> Invitation], ReviewsComplete'
  PROVE  ExternalInv'
<1>1. given[p] \in Nat \cup {NotGiven} /\ access \in [Externals -> Grant]
  BY DEF ExternalInv, ExternalType
<1>2. /\ Dated(p, g, given[p]) \in Grant
      /\ p \notin joined => Dated(p, g, given[p]).ends # Forever
  BY <1>1, DatedHasAnEnd
<1>3. access' \in [Externals -> Grant] /\ access'[p] = Dated(p, g, given[p])
      /\ \A q \in Externals \ {p} : access'[q] = access[q]
  BY <1>1, <1>2 DEF Put
<1>4. ExternalType'
  BY <1>3 DEF ExternalInv, ExternalType
<1>5. OutsidersHaveAnEnd'
  BY <1>2, <1>3, EndsStand DEF ExternalInv, Ages
<1>6. OutsidersWereInvited'
  BY <1>3 DEF ExternalInv, OutsidersWereInvited, Holds
<1> QED BY <1>4, <1>5, <1>6 DEF ExternalInv

\* Grants go, and nothing of the others is written.
LEMMA AccessGoes ==
  ASSUME ExternalInv, Ages, UNCHANGED <<today, joined, given, archive, invite>>,
         access' \in [Externals -> Grant],
         \A q \in Externals : access'[q] = access[q] \/ access'[q] = NoAccess,
         ReviewsComplete'
  PROVE  ExternalInv'
<1>1. OutsidersHaveAnEnd'
  BY EndsStand DEF ExternalInv, Ages
<1> QED BY <1>1 DEF ExternalInv, ExternalType, OutsidersWereInvited, Holds

\* The invitations change, and nobody has access by it.
LEMMA InvitesChange ==
  ASSUME ExternalInv, Ages, UNCHANGED <<today, joined, given, access, archive, review, items>>,
         invite' \in [Externals -> Invitation]
  PROVE  ExternalInv'
<1>1. OutsidersHaveAnEnd'
  BY EndsStand DEF ExternalInv, Ages
<1> QED BY <1>1 DEF ExternalInv, Ages, ExternalType, OutsidersWereInvited, Holds, ReviewsComplete

LEMMA InvitingStep ==
  ASSUME ExternalInv, Ages, NEW p \in Externals, NEW a,
         \/ RevokeInvite(p) \/ ResendInvite(a, p)
         \/ \E d \in GrantDays : SetInviteDays(a, p, d)
         \/ \E perm \in Perms : perm \in Offers /\ Invite(a, p, perm)
  PROVE  ExternalInv'
<1>1. /\ invite \in [Externals -> Invitation] /\ invite[p] \in Invitation
      /\ Max(GrantDays) \in Nat /\ today + InviteDays \in Nat /\ GrantDays \subseteq Nat
  <2>1. Max(GrantDays) \in Nat /\ GrantDays \subseteq Nat
    BY LongestIsOffered
  <2>2. today \in Nat /\ invite \in [Externals -> Invitation]
    BY DEF ExternalInv, ExternalType
  <2> QED BY <2>1, <2>2, ExternalAssumption
<1>2. ASSUME NEW v, invite' = [invite EXCEPT ![p] = v], v \in Invitation
      PROVE  invite' \in [Externals -> Invitation]
  BY <1>1, <1>2
<1>3. CASE RevokeInvite(p)
  BY <1>1, <1>3, InvitesChange DEF RevokeInvite, Invitation
<1>4. CASE ResendInvite(a, p)
  BY <1>1, <1>4, InvitesChange DEF ResendInvite, Invitation
<1>5. ASSUME NEW d \in GrantDays, SetInviteDays(a, p, d) PROVE ExternalInv'
  BY <1>1, <1>5, InvitesChange DEF SetInviteDays, Invitation
<1>6. ASSUME NEW perm \in Perms, Invite(a, p, perm) PROVE ExternalInv'
  BY <1>1, <1>6, InvitesChange DEF Invite, Invitation
<1> QED BY <1>3, <1>4, <1>5, <1>6

LEMMA AcceptStep ==
  ASSUME ExternalInv, Ages, NEW p \in Externals, AcceptInvite(p)
  PROVE  ExternalInv'
<1> DEFINE ends == today + invite[p].days
           g == [perm |-> invite[p].perm, ends |-> access[p].ends]
<1>1. /\ invite[p] \in Invitation /\ access[p] \in Grant /\ ends \in Nat /\ g \in Grant
  BY DEF ExternalInv, ExternalType, Invitation, Grant
<1> HIDE DEF g
<1>2. Dated(p, g, ends) \in Grant /\ (p \notin joined => Dated(p, g, ends).ends # Forever)
  <2> HIDE DEF ends
  <2>1. ends \in Nat \cup {NotGiven} /\ ends # NotGiven
    BY <1>1 DEF NotGiven
  <2> QED BY <1>1, <2>1, DatedHasAnEnd
<1>3. /\ given' = [given EXCEPT ![p] = ends] /\ access' = [access EXCEPT ![p] = Dated(p, g, ends)]
      /\ UNCHANGED <<today, joined, archive, review, items>>
      /\ invite' = [invite EXCEPT ![p].st = "accepted"]
  BY DEF AcceptInvite, g
<1> HIDE DEF ends
<1>4. ExternalType'
  BY <1>1, <1>2, <1>3 DEF ExternalInv, ExternalType, Invitation
<1>5. access' \in [Externals -> Grant] /\ access'[p] = Dated(p, g, ends)
      /\ \A q \in Externals \ {p} : access'[q] = access[q]
  BY <1>1, <1>2, <1>3 DEF ExternalInv, ExternalType
<1>6. OutsidersHaveAnEnd'
  BY <1>2, <1>3, <1>5, EndsStand DEF ExternalInv, Ages
<1>7. OutsidersWereInvited'
  BY <1>1, <1>3, <1>5 DEF ExternalInv, ExternalType, OutsidersWereInvited, Holds, NotGiven
<1> QED BY <1>3, <1>4, <1>6, <1>7 DEF ExternalInv, Ages, ReviewsComplete

LEMMA WritingStep ==
  ASSUME ExternalInv, Ages, NEW p \in Externals, NEW a
  PROVE  /\ \A perm \in Perms : SetPermission(a, p, perm) \/ GrantMember(p, perm) => ExternalInv'
         /\ \A perm \in Perms, d \in GrantDays \cup {Forever} : UpdateGrant(a, p, perm, d) => ExternalInv'
         /\ RemoveAccess(a, p) => ExternalInv'
<1>1. /\ access \in [Externals -> Grant] /\ access[p] \in Grant /\ NoAccess \in Grant
      /\ Holds(p) => p \in joined \/ given[p] # NotGiven
      /\ invite \in [Externals -> Invitation] /\ today \in Nat /\ ReviewsComplete
  BY DEF ExternalInv, ExternalType, OutsidersWereInvited, NoAccess, Grant
<1>2. ASSUME NEW perm \in Perms, SetPermission(a, p, perm) PROVE ExternalInv'
  <2>1. [access[p] EXCEPT !.perm = perm] \in Grant
    BY <1>1 DEF Grant
  <2> QED BY <1>1, <1>2, <2>1, PutStands DEF SetPermission, Ages, ReviewsComplete
<1>3. ASSUME NEW perm \in Perms, GrantMember(p, perm) PROVE ExternalInv'
  <2>1. [perm |-> perm, ends |-> access[p].ends] \in Grant
    BY <1>1 DEF Grant
  <2> QED BY <1>1, <1>3, <2>1, PutStands DEF GrantMember, Ages, ReviewsComplete
<1>4. ASSUME NEW perm \in Perms, NEW d \in GrantDays \cup {Forever}, UpdateGrant(a, p, perm, d)
      PROVE  ExternalInv'
  <2>1. Until(d) \in Nat \cup {Forever}
    BY <1>1, LongestIsOffered DEF Until
  <2>2. [perm |-> perm, ends |-> Until(d)] \in Grant
    BY <2>1 DEF Grant
  <2> QED BY <1>1, <1>4, <2>2, PutStands DEF UpdateGrant, Ages, ReviewsComplete
<1>5. ASSUME RemoveAccess(a, p) PROVE ExternalInv'
  BY <1>1, <1>5, AccessGoes DEF RemoveAccess, Ages, ReviewsComplete
<1> QED BY <1>2, <1>3, <1>4, <1>5

LEMMA ReviewStep ==
  ASSUME ExternalInv, Ages, NEW p \in Externals, NEW decision, NEW d \in GrantDays, Decide(p, decision, d)
  PROVE  ExternalInv'
<1>1. /\ access \in [Externals -> Grant] /\ access[p] \in Grant /\ NoAccess \in Grant
      /\ Holds(p) => p \in joined \/ given[p] # NotGiven
      /\ invite \in [Externals -> Invitation] /\ today + d \in Nat
  BY LongestIsOffered DEF ExternalInv, ExternalType, OutsidersWereInvited, NoAccess, Grant
<1>2. ReviewsComplete' /\ UNCHANGED <<today, joined, trashed, invite, given, archive, admitted>>
  BY DEF Decide, Decided, Completes, Ages, ReviewsComplete
<1>3. CASE access' = [access EXCEPT ![p] = NoAccess]
  BY <1>1, <1>2, <1>3, AccessGoes
<1>4. CASE Holds(p) /\ Put(p, access[p])
  BY <1>1, <1>2, <1>4, PutStands
<1>5. CASE Holds(p) /\ Put(p, [access[p] EXCEPT !.ends = today + d])
  <2>1. [access[p] EXCEPT !.ends = today + d] \in Grant
    BY <1>1 DEF Grant
  <2> QED BY <1>1, <1>2, <1>5, <2>1, PutStands
<1>6. ASSUME access[p].perm = "admin", NEW e \in {access[p].ends, today + d}, Put(p, [perm |-> "write", ends |-> e])
      PROVE  ExternalInv'
  <2>1. Holds(p)
    BY <1>6 DEF Holds, NoAccess
  <2>2. [perm |-> "write", ends |-> e] \in Grant
    BY <1>1 DEF Grant, Perms
  <2> QED BY <1>1, <1>2, <1>6, <2>1, <2>2, PutStands
<1> QED BY <1>3, <1>4, <1>5, <1>6 DEF Decide

LEMMA RestoreStep ==
  ASSUME ExternalInv, Ages, NEW h \in archive, NEW a, NEW perm \in Perms, NEW d \in GrantDays,
         RestoreGrant(a, h, perm, d)
  PROVE  ExternalInv'
<1>1. /\ h.who \in Externals /\ today + d \in Nat /\ given[h.who] # NotGiven
      /\ invite \in [Externals -> Invitation]
  BY LongestIsOffered DEF RestoreGrant, ExternalInv, ExternalType, OutsidersWereInvited
<1>2. [perm |-> perm, ends |-> today + d] \in Grant
  BY <1>1 DEF Grant
<1>3. Put(h.who, [perm |-> perm, ends |-> today + d]) /\ archive' \subseteq archive
      /\ UNCHANGED <<today, joined, given, invite, review, items>>
  BY DEF RestoreGrant
<1> QED BY <1>1, <1>2, <1>3, PutStands DEF ExternalInv, Ages, ReviewsComplete

LEMMA ExpiryStep ==
  ASSUME ExternalInv, Ages, ExpireGrants
  PROVE  ExternalInv'
<1>1. /\ UNCHANGED <<today, joined, invite, given, review, items>>
      /\ \A q \in Externals : access'[q] = access[q] \/ access'[q] = NoAccess
      /\ access' \in [Externals -> Grant]
  BY DEF ExpireGrants, ExternalInv, ExternalType, NoAccess, Grant
<1>2. ASSUME NEW h \in archive' \ archive
      PROVE  h \in [who : Externals, perm : Perms \cup {"none"}] /\ Holds(h.who)
  BY DEF ExpireGrants, Due, ExternalInv, ExternalType, Grant
<1>3. ExternalType'
  BY <1>1, <1>2 DEF ExternalInv, ExternalType
<1>4. OutsidersHaveAnEnd' /\ ReviewsComplete'
  BY <1>1, EndsStand DEF ExternalInv, Ages, ReviewsComplete
<1>5. OutsidersWereInvited'
  BY <1>1, <1>2 DEF ExternalInv, OutsidersWereInvited, Holds
<1> QED BY <1>3, <1>4, <1>5 DEF ExternalInv

\* Time, members and the repository's place: no grant is written.
LEMMA NoGrantStep ==
  ASSUME ExternalInv, Ages,
         \/ CreateCampaign \/ TrashOrRestore \/ NextDay
         \/ \E p \in Externals : AskAsAdmin(p) \/ GiveUp(p) \/ BecomesMember(p)
  PROVE  ExternalInv'
<1>1. /\ UNCHANGED <<invite, given, access, archive>> /\ joined \subseteq joined'
      /\ today' \in Nat /\ ReviewsComplete'
  <2>0. today \in Nat /\ ReviewsComplete
    BY DEF ExternalInv, ExternalType
  <2>1. CASE CreateCampaign
    BY <2>0, <2>1 DEF CreateCampaign, ReviewsComplete
  <2>2. CASE ~CreateCampaign
    BY <2>0, <2>2 DEF TrashOrRestore, NextDay, AskAsAdmin, GiveUp, BecomesMember, Ages, ReviewsComplete
  <2> QED BY <2>1, <2>2
<1>2. OutsidersHaveAnEnd'
  BY <1>1, EndsStand DEF ExternalInv, Ages
<1> QED BY <1>1, <1>2 DEF ExternalInv, ExternalType, OutsidersWereInvited, Holds

\* A purge leaves nothing but the campaign.
LEMMA PurgeStep ==
  ASSUME ExternalInv, Purge
  PROVE  ExternalInv'
<1>1. NoInvite \in Invitation /\ NoAccess \in Grant
  BY DEF NoInvite, Invitation, NoAccess, Grant, Forever
<1>2. ExternalType'
  BY <1>1 DEF Purge, ExternalInv, ExternalType
<1>3. \A p \in Externals : ~Holds(p)'
  BY DEF Purge, Holds
<1>4. OutsidersHaveAnEnd' /\ OutsidersWereInvited'
  BY <1>3 DEF Purge, OutsidersHaveAnEnd, OutsidersWereInvited
<1>5. ReviewsComplete'
  BY DEF Purge, ExternalInv, ReviewsComplete
<1> QED BY <1>2, <1>4, <1>5 DEF ExternalInv

LEMMA ServiceStep ==
  ASSUME ExternalInv, Ages, ServiceNext
  PROVE  ExternalInv'
<1>1. ASSUME CreateCampaign \/ TrashOrRestore \/ NextDay
             \/ (\E p \in Externals : AskAsAdmin(p) \/ GiveUp(p) \/ BecomesMember(p))
      PROVE  ExternalInv'
  BY <1>1, NoGrantStep
<1>2. ASSUME NEW p \in Externals,
             \/ RevokeInvite(p) \/ AcceptInvite(p) \/ \E perm \in Perms : GrantMember(p, perm)
             \/ \E a \in Actors \cup Externals : RemoveAccess(a, p)
             \/ \E decision \in {"keep", "renew", "reduce", "revoke"}, d \in GrantDays : Decide(p, decision, d)
      PROVE  ExternalInv'
  BY <1>2, InvitingStep, AcceptStep, WritingStep, ReviewStep
<1>3. ASSUME NEW p \in Externals, NEW a \in Actors,
             \/ ResendInvite(a, p)
             \/ \E d \in GrantDays : SetInviteDays(a, p, d)
             \/ \E perm \in Perms :
                  \/ perm \in Offers /\ Invite(a, p, perm)
                  \/ SetPermission(a, p, perm)
                  \/ \E d \in GrantDays \cup {Forever} : UpdateGrant(a, p, perm, d)
      PROVE  ExternalInv'
  BY <1>3, InvitingStep, WritingStep
<1> QED BY <1>1, <1>2, <1>3, ExpiryStep, RestoreStep DEF ServiceNext

LEMMA ExternalStep == ExternalInv /\ [ExternalNext]_externalVars => ExternalInv'
<1>1. ASSUME ExternalInv, UNCHANGED externalVars PROVE ExternalInv'
  BY <1>1 DEF externalVars, ExternalInv, ExternalType, OutsidersHaveAnEnd, OutsidersWereInvited, Holds, ReviewsComplete
<1>2. ASSUME ExternalInv, ExternalNext PROVE ExternalInv'
  BY <1>2, ServiceStep, PurgeStep DEF ExternalNext, Ages
<1> QED BY <1>1, <1>2

\* Nobody from outside has access without a last day, whatever is granted, reviewed,
\* restored or made permanent, unless on a grant from before there were days that was not
\* written since; a review is open as long as somebody is undecided, and no longer unless
\* a purge took who was undecided (external-access-expiry-guard.mjs,
\* external-access-reviews.mjs, repository-lifecycle.mjs).
THEOREM ExternalHolds == ExternalSpec => []ExternalSound
<1>1. ExternalInit => ExternalInv
  <2> SUFFICES ASSUME ExternalInit PROVE ExternalInv
    OBVIOUS
  <2>1. NoInvite \in Invitation /\ {NoAccess} \cup [perm : Perms, ends : {Forever}] \subseteq Grant
        /\ {NotGiven} \cup 0 .. LastDay \subseteq Nat \cup {NotGiven}
    BY DEF NoInvite, Invitation, NoAccess, Grant, Forever
  <2>2. ExternalType
    BY <2>1 DEF ExternalInit, ExternalType
  <2>3. \A p \in Externals : Holds(p) => p \in old /\ given[p] # NotGiven
    BY DEF ExternalInit, Holds
  <2> QED BY <2>2, <2>3 DEF ExternalInit, ExternalInv, OutsidersHaveAnEnd, OutsidersWereInvited, ReviewsComplete
<1>2. ExternalInv => ExternalSound
  BY DEF ExternalInv, ExternalSound
<1> QED BY <1>1, <1>2, ExternalStep, PTL DEF ExternalSpec

\* Membership, teams, grants and external access, which share no state, give what they
\* say, to whom they say, until the day they say.
THEOREM AccessHolds == MemberSpec /\ ExternalSpec => []AccessSound
BY MembershipHolds, ExternalHolds, PTL DEF AccessSound

(***************************************************************************)
(* Notifications: a turn names a reminder only of a bucket the token has   *)
(* reached, and days only pass.                                            *)
(***************************************************************************)
Reminders == {"expiry1", "expiry3", "expiry7", "webhook"}
Told == [what : Happenings \cup Reminders, to : SUBSET Recipients, half : SUBSET Recipients]

NotifyType ==
  /\ level \in [Recipients -> 0 .. 3] /\ left \in Nat
  /\ turn \in [Servers -> {NoTelling} \cup Told]
  /\ finished \in [Servers -> SUBSET Happenings]

\* What a reminder of this name may be about by now.
Reached(h) == (h = "expiry1" => left <= 1) /\ (h = "expiry3" => left <= 3)

TurnsInTime == \A p \in Servers : turn[p] # NoTelling => Reached(turn[p].what)
RowsInTime == \A u \in Recipients, h \in {"expiry1", "expiry3"} : <<u, h>> \in inbox \cup outbox => Reached(h)

NotifyInv ==
  NotifyType /\ TurnsInTime /\ RowsInTime /\ HalfToldIsFinished /\ RepliesReachOnlyReaders

LEMMA ToldFollows == NotifyInv => ToldRight
BY DEF NotifyInv, RowsInTime, Reached, ToldRight, RemindersInTime

LEMMA HappeningsAreNoReminders == Happenings \cap {"expiry1", "expiry3"} = {}
BY NotificationsAssumption

\* A process takes up what is due.
LEMMA TurnBegins ==
  ASSUME NotifyInv, NEW p \in Servers, NEW t \in {NoTelling} \cup Told, t # NoTelling => Reached(t.what),
         turn' = [turn EXCEPT ![p] = t], finished' \in [Servers -> SUBSET Happenings],
         UNCHANGED <<level, left, inbox, outbox, asked, told>>
  PROVE  NotifyInv'
<1>1. NotifyType'
  BY DEF NotifyInv, NotifyType
<1>2. TurnsInTime'
  BY DEF NotifyInv, NotifyType, TurnsInTime, Reached
<1> QED BY <1>1, <1>2 DEF NotifyInv, RowsInTime, Reached, HalfToldIsFinished, RepliesReachOnlyReaders

LEMMA CaptureStep ==
  ASSUME NotifyInv, NEW p \in Servers, NEW h \in Happenings, Happens(h, p) \/ Finish(h, p)
  PROVE  NotifyInv'
<1>1. CASE Happens(h, p)
  BY <1>1 DEF Happens, restVars, NotifyInv, NotifyType, TurnsInTime, RowsInTime, Reached, HalfToldIsFinished,
              RepliesReachOnlyReaders
<1>2. CASE Finish(h, p)
  <2> DEFINE t == IF Concerned(h) = {} THEN NoTelling ELSE [what |-> h, to |-> Concerned(h), half |-> {}]
  <2>1. Concerned(h) \subseteq Recipients
    BY NotificationsAssumption DEF Concerned, Writers, Invited, Joined
  <2>2. t \in {NoTelling} \cup Told
    BY <2>1 DEF Told
  <2>3. t # NoTelling => Reached(t.what)
    BY HappeningsAreNoReminders DEF Reached
  <2>4. finished' \in [Servers -> SUBSET Happenings]
    BY <1>2 DEF Finish, NotifyInv, NotifyType
  <2>5. turn' = [turn EXCEPT ![p] = t] /\ UNCHANGED <<level, left, inbox, outbox, asked, told>>
    BY <1>2 DEF Finish, restVars
  <2> HIDE DEF t
  <2> QED BY <2>2, <2>3, <2>4, <2>5, TurnBegins
<1> QED BY <1>1, <1>2

LEMMA SweepStep ==
  ASSUME NotifyInv, NEW p \in Servers, SweepTokens(p) \/ SweepWebhooks(p)
  PROVE  NotifyInv'
<1>1. finished' \in [Servers -> SUBSET Happenings] /\ UNCHANGED <<level, left, inbox, outbox, asked, told>>
  BY DEF SweepTokens, SweepWebhooks, restVars, NotifyInv, NotifyType
<1>2. CASE SweepTokens(p)
  <2> DEFINE t == [what |-> Bucket(left), to |-> {Actor}, half |-> {}]
  <2>1. left \in Nat /\ t \in Told /\ Reached(t.what)
    BY NotificationsAssumption DEF Bucket, Told, Reminders, Reached, NotifyInv, NotifyType
  <2>2. turn' = [turn EXCEPT ![p] = t]
    BY <1>2 DEF SweepTokens
  <2> HIDE DEF t
  <2> QED BY <1>1, <2>1, <2>2, TurnBegins
<1>3. CASE SweepWebhooks(p)
  <2> DEFINE t == [what |-> "webhook", to |-> {Actor}, half |-> {}]
  <2>1. t \in Told /\ Reached(t.what)
    BY NotificationsAssumption DEF Told, Reminders, Reached
  <2>2. turn' = [turn EXCEPT ![p] = t]
    BY <1>3 DEF SweepWebhooks
  <2> HIDE DEF t
  <2> QED BY <1>1, <2>1, <2>2, TurnBegins
<1> QED BY <1>2, <1>3

\* What is left of a turn is of what the turn was.
LEMMA TurnGoesOn ==
  ASSUME NotifyInv, NEW p \in Servers, turn[p] # NoTelling,
         NEW T \in SUBSET Recipients, NEW H \in SUBSET Recipients
  PROVE  /\ turn[p] \in Told /\ Reached(turn[p].what)
         /\ [turn[p] EXCEPT !.to = T, !.half = H] \in Told
         /\ [turn[p] EXCEPT !.to = T, !.half = H].what = turn[p].what
BY DEF NotifyInv, NotifyType, TurnsInTime, Told

LEMMA TellStep ==
  ASSUME NotifyInv, NEW p \in Servers, (\E u \in Recipients : TellInbox(u, p)) \/ TellByMail(p)
  PROVE  NotifyInv'
<1>0. turn \in [Servers -> {NoTelling} \cup Told] /\ left' = left /\ level' = level /\ finished' = finished
  BY DEF TellInbox, TellByMail, restVars, NotifyInv, NotifyType
<1>1. ASSUME NEW u \in Recipients, TellInbox(u, p) PROVE NotifyInv'
  <2> DEFINE h == turn[p].what
             m == IF StillMaySee(u, h) /\ prefs[u].email THEN {u} ELSE {}
  <2>1. turn[p] \in Told /\ Reached(h) /\ turn[p].to \ {u} \in SUBSET Recipients
    BY <1>1, TurnGoesOn DEF TellInbox, Told
  <2>2. turn' = [turn EXCEPT ![p] = After(p, u, m)]
    BY <1>1 DEF TellInbox
  <2>3. After(p, u, m) \in {NoTelling} \cup Told
        /\ (After(p, u, m) # NoTelling => After(p, u, m).what = h)
    <3>1. m \in SUBSET Recipients /\ turn[p] # NoTelling
      BY <1>1 DEF TellInbox
    <3> HIDE DEF m
    <3>2. [turn[p] EXCEPT !.to = turn[p].to \ {u}, !.half = m] \in Told
          /\ [turn[p] EXCEPT !.to = turn[p].to \ {u}, !.half = m].what = h
      BY <2>1, <3>1, TurnGoesOn
    <3> QED BY <3>2 DEF After
  <2>4. inbox' \subseteq inbox \cup {<<u, h>>} /\ UNCHANGED <<outbox, asked>>
    BY <1>1 DEF TellInbox
  <2>5. told' = told \/ (told' = told \cup {<<u, h>>} /\ h # "replied")
    BY <1>1 DEF TellInbox, StillMaySee
  <2> HIDE DEF h, m
  <2>6. NotifyType'
    BY <1>0, <2>2, <2>3 DEF NotifyInv, NotifyType
  <2>7. TurnsInTime'
    BY <1>0, <2>1, <2>2, <2>3 DEF NotifyInv, TurnsInTime, Reached
  <2>8. RowsInTime'
    BY <1>0, <2>1, <2>4 DEF NotifyInv, RowsInTime, Reached
  <2> QED BY <2>4, <2>5, <2>6, <2>7, <2>8 DEF NotifyInv, HalfToldIsFinished, RepliesReachOnlyReaders
<1>2. CASE TellByMail(p)
  <2> DEFINE h == turn[p].what
             u == CHOOSE u \in turn[p].half : TRUE
             t == IF turn[p].to = {} THEN NoTelling ELSE [turn[p] EXCEPT !.half = {}]
  <2>1. turn[p] \in Told /\ Reached(h)
    BY <1>2, TurnGoesOn DEF TellByMail
  <2>2. turn' = [turn EXCEPT ![p] = t] /\ t \in {NoTelling} \cup Told /\ (t # NoTelling => t.what = h)
    BY <1>2, <2>1 DEF TellByMail, Told
  <2>3. outbox' = outbox \cup {<<u, h>>} /\ asked' = asked \cup {<<u, h>>} /\ UNCHANGED <<inbox, told>>
    BY <1>2 DEF TellByMail, Queued
  <2> HIDE DEF h, u, t
  <2>6. NotifyType'
    BY <1>0, <2>2 DEF NotifyInv, NotifyType
  <2>7. TurnsInTime'
    BY <1>0, <2>1, <2>2 DEF NotifyInv, TurnsInTime, Reached
  <2>8. RowsInTime'
    BY <1>0, <2>1, <2>3 DEF NotifyInv, RowsInTime, Reached
  <2> QED BY <2>3, <2>6, <2>7, <2>8 DEF NotifyInv, HalfToldIsFinished, RepliesReachOnlyReaders
<1> QED BY <1>1, <1>2

LEMMA NotifyStep == NotifyInv /\ [NotifyNext]_notifyVars => NotifyInv'
<1> SUFFICES ASSUME NotifyInv, [NotifyNext]_notifyVars PROVE NotifyInv'
  OBVIOUS
<1>1. CASE UNCHANGED notifyVars \/ ApiNext \/ DayPasses \/ TokenRevoked \/ DeliveryExhausted
  <2>1. /\ UNCHANGED <<turn, finished, inbox, outbox, asked, told>> /\ level' \in [Recipients -> 0 .. 3]
        /\ left' \in Nat /\ left' <= left
    BY <1>1 DEF notifyVars, ApiNext, Prefer, AccessChanges, DayPasses, TokenRevoked, DeliveryExhausted,
                NotifyInv, NotifyType
  <2> QED BY <2>1 DEF NotifyInv, NotifyType, TurnsInTime, RowsInTime, Reached, HalfToldIsFinished,
                      RepliesReachOnlyReaders
<1>2. ASSUME NEW p \in Servers, ProcessDies(p) PROVE NotifyInv'
  <2>1. finished' \in [Servers -> SUBSET Happenings] /\ turn' = [turn EXCEPT ![p] = NoTelling]
        /\ UNCHANGED <<level, left, inbox, outbox, asked, told>>
    BY <1>2 DEF ProcessDies, NotifyInv, NotifyType
  <2> QED BY <2>1, TurnBegins
<1> QED BY <1>1, <1>2, CaptureStep, TellStep, SweepStep
        DEF NotifyNext, CaptureNext, TellNext, SweepNext, WorldNext

\* What a process has gone through with is in the outbox, a reply reaches nobody who had
\* lost sight of the repository, and no reminder is used up before its days, for any
\* number of people and processes (notifications.mjs, notification-events.mjs).
THEOREM NotificationsHold == NotifySpec => []ToldRight
<1>1. NotifyInit => NotifyInv
  BY NotificationsAssumption
  DEF NotifyInit, NotifyInv, NotifyType, TurnsInTime, RowsInTime, HalfToldIsFinished, RepliesReachOnlyReaders
<1> QED BY <1>1, NotifyStep, ToldFollows, PTL DEF NotifySpec

(***************************************************************************)
(* Issues: the rows of a repository are numbered apart, with a highest     *)
(* number among them, and none is ever deleted.                            *)
(***************************************************************************)
LabelRow == [repo : Trackers, name : LabelNames]
IssueRow == [repo : Trackers, number : Nat, labels : SUBSET LabelRow]
NoteRow  == [issue : IssueIds, owner : People, words : People \cup {"elsewhere"}]

RowsType ==
  /\ DOMAIN issues \subseteq IssueIds /\ issues \in [DOMAIN issues -> IssueRow]
  /\ notes \in [DOMAIN notes -> NoteRow] /\ labels \subseteq LabelRow

AwaitedStands ==
  \/ awaited = NoRequest
  \/ awaited.what = "open" /\ awaited.repo \in Trackers
  \/ /\ awaited.what \in {"comment", "react", "patch"} /\ awaited.user \in People
     /\ awaited.issue \in DOMAIN issues /\ awaited.repo = issues[awaited.issue].repo
  \/ /\ awaited.what = "edit" /\ awaited.user \in People /\ awaited.note \in DOMAIN notes \cup gone
     /\ awaited.note \in DOMAIN notes => notes[awaited.note].owner = awaited.user

NumbersApart ==
  \A i, j \in DOMAIN issues : issues[i].repo = issues[j].repo /\ issues[i].number = issues[j].number => i = j

HighestThere ==
  \A r \in Trackers : Here(r) # {} => \E i \in Here(r) : \A j \in Here(r) : issues[j].number <= issues[i].number

CitedAsIs ==
  \A a \in cited : /\ a.issue \in DOMAIN issues
                   /\ a.repo = issues[a.issue].repo /\ a.number = issues[a.issue].number

LabelsOwn == \A i \in DOMAIN issues : \A l \in issues[i].labels : OfRepository(l, issues[i].repo)
MarksOwn == \A m \in marks : m.on = "issue" \/ (m.on \in DOMAIN notes /\ notes[m.on].issue = m.issue)

Numbered == NumbersApart /\ HighestThere /\ CitedAsIs
IssuesInv == RowsType /\ AwaitedStands /\ Numbered /\ LabelsOwn /\ MarksOwn /\ WordsStay

LEMMA IssuesFollow == IssuesInv => IssuesSound
BY DEF IssuesInv, Numbered, NumbersApart, CitedAsIs, LabelsOwn, MarksOwn, IssuesSound, NumbersMeanOneIssue,
       NothingCrosses

LEMMA TopIsHighest ==
  ASSUME IssuesInv, NEW r \in Trackers
  PROVE  Top(NumbersOf(r)) \in Nat /\ \A i \in Here(r) : issues[i].number <= Top(NumbersOf(r))
<1>0. \A i \in Here(r) : issues[i].number \in Nat
  BY DEF Here, IssuesInv, RowsType, IssueRow
<1>1. CASE Here(r) = {}
  BY <1>1 DEF NumbersOf, Top
<1>2. CASE Here(r) # {}
  <2>1. PICK h \in Here(r) : \A j \in Here(r) : issues[j].number <= issues[h].number
    BY <1>2 DEF IssuesInv, Numbered, HighestThere
  <2>2. issues[h].number \in NumbersOf(r) /\ \A k \in NumbersOf(r) : k <= issues[h].number
    BY <2>1 DEF NumbersOf
  <2>3. NumbersOf(r) # {} /\ \E n \in NumbersOf(r) : \A k \in NumbersOf(r) : k <= n
    BY <2>2
  <2>4. Top(NumbersOf(r)) \in NumbersOf(r) /\ \A k \in NumbersOf(r) : k <= Top(NumbersOf(r))
    BY <2>3 DEF Top
  <2> QED BY <1>0, <2>4 DEF NumbersOf
<1> QED BY <1>1, <1>2

\* Rows that come with numbers above those there, in one repository, apart from each other.
LEMMA RowsCome ==
  ASSUME IssuesInv, NEW r \in Trackers, NEW N \in SUBSET (IssueIds \ DOMAIN issues),
         DOMAIN issues' = DOMAIN issues \cup N, issues' \in [DOMAIN issues' -> IssueRow],
         \A k \in DOMAIN issues : issues'[k] = issues[k],
         \A k \in N : issues'[k].repo = r /\ \A j \in Here(r) : issues[j].number < issues'[k].number,
         \A k, l \in N : issues'[k].number = issues'[l].number => k = l,
         \E k \in N : \A l \in N : issues'[l].number <= issues'[k].number,
         cited' = Cite(N)
  PROVE  Numbered'
<1>0. \A k \in DOMAIN issues' : issues'[k].repo \in Trackers /\ issues'[k].number \in Nat
  BY DEF IssueRow
<1>1. NumbersApart'
  <2> SUFFICES ASSUME NEW i \in DOMAIN issues', NEW j \in DOMAIN issues',
                      issues'[i].repo = issues'[j].repo, issues'[i].number = issues'[j].number
               PROVE  i = j
    BY DEF NumbersApart
  <2>1. CASE i \in DOMAIN issues /\ j \in DOMAIN issues
    BY <2>1 DEF IssuesInv, Numbered, NumbersApart
  <2>2. ASSUME NEW k \in N, NEW l \in DOMAIN issues, issues'[k].repo = issues'[l].repo
        PROVE  issues'[k].number # issues'[l].number
    <3>1. l \in Here(r) /\ issues[l].number < issues'[k].number
      BY <2>2 DEF Here
    <3> QED BY <1>0, <3>1
  <2> QED BY <2>1, <2>2
<1>2. HighestThere'
  <2> SUFFICES ASSUME NEW q \in Trackers, Here(q)' # {}
               PROVE  \E i \in Here(q)' : \A j \in Here(q)' : issues'[j].number <= issues'[i].number
    BY DEF HighestThere
  <2>1. CASE q = r
    <3>1. PICK k \in N : \A l \in N : issues'[l].number <= issues'[k].number
      OBVIOUS
    <3>2. k \in Here(q)'
      BY <2>1 DEF Here
    <3>3. ASSUME NEW j \in Here(q)' PROVE issues'[j].number <= issues'[k].number
      <4>1. j \in N \/ (j \in Here(r) /\ issues'[j] = issues[j])
        BY <2>1 DEF Here
      <4>2. issues'[j].number \in Nat /\ issues'[k].number \in Nat
        BY <1>0, <3>2 DEF Here
      <4>3. j \in Here(r) => issues[j].number < issues'[k].number
        OBVIOUS
      <4> QED BY <3>1, <4>1, <4>2, <4>3
    <3> QED BY <3>2, <3>3
  <2>2. CASE q # r
    <3>1. Here(q)' = Here(q) /\ \A j \in Here(q) : issues'[j] = issues[j]
      BY <2>2 DEF Here
    <3> QED BY <3>1 DEF IssuesInv, Numbered, HighestThere
  <2> QED BY <2>1, <2>2
<1>3. CitedAsIs'
  BY DEF IssuesInv, Numbered, CitedAsIs, Cite
<1> QED BY <1>1, <1>2, <1>3 DEF Numbered

\* The rows of issues keep their repository and number.
LEMMA NumbersStay ==
  ASSUME IssuesInv, DOMAIN issues' = DOMAIN issues, cited' = cited,
         \A i \in DOMAIN issues : issues'[i].repo = issues[i].repo /\ issues'[i].number = issues[i].number
  PROVE  Numbered'
<1>1. \A r \in Trackers : Here(r)' = Here(r)
  BY DEF Here
<1> QED BY <1>1 DEF IssuesInv, Numbered, NumbersApart, HighestThere, CitedAsIs, Here

LEMMA OpenStep ==
  ASSUME IssuesInv, NEW i \in IssueIds, OpenIssue(i)
  PROVE  IssuesInv'
<1> DEFINE r == awaited.repo
           n == Top(NumbersOf(r)) + 1
<1>1. r \in Trackers /\ n \in Nat /\ \A j \in Here(r) : issues[j].number < n
  <2>1. r \in Trackers
    BY DEF OpenIssue, IssuesInv, AwaitedStands, NoRequest
  <2>2. \A j \in Here(r) : issues[j].number \in Nat
    BY DEF Here, IssuesInv, RowsType, IssueRow
  <2> QED BY <2>1, <2>2, TopIsHighest
<1>2. /\ DOMAIN issues' = DOMAIN issues \cup {i} /\ issues'[i] = Opened(r, n) /\ i \notin DOMAIN issues
      /\ \A k \in DOMAIN issues : issues'[k] = issues[k]
      /\ cited' = Cite({i}) /\ awaited' = NoRequest /\ UNCHANGED <<labels, notes, gone, marks, may>>
  BY DEF OpenIssue
<1> HIDE DEF r, n
<1>3. Opened(r, n) \in IssueRow /\ Opened(r, n).repo = r /\ Opened(r, n).number = n /\ Opened(r, n).labels = {}
  BY <1>1 DEF Opened, IssueRow
<1>4. issues' \in [DOMAIN issues' -> IssueRow] /\ RowsType'
  <2>1. \A k \in DOMAIN issues' : issues'[k] \in IssueRow
    BY <1>2, <1>3 DEF IssuesInv, RowsType
  <2>2. issues' = [k \in DOMAIN issues' |-> issues'[k]]
    BY DEF OpenIssue
  <2>3. issues' \in [DOMAIN issues' -> IssueRow]
    BY <2>1, <2>2
  <2> QED BY <1>2, <2>3 DEF IssuesInv, RowsType
<1>5. Numbered'
  BY <1>1, <1>2, <1>3, <1>4, RowsCome
<1>6. LabelsOwn'
  BY <1>2, <1>3 DEF IssuesInv, LabelsOwn, OfRepository
<1> QED BY <1>2, <1>4, <1>5, <1>6 DEF IssuesInv, AwaitedStands, MarksOwn, WordsStay

\* Only what waits, the permissions or the marks change.
LEMMA RowsStay ==
  ASSUME IssuesInv, UNCHANGED <<issues, labels, notes, gone, cited>>, AwaitedStands', MarksOwn'
  PROVE  IssuesInv'
<1>1. Numbered'
  BY NumbersStay
<1> QED BY <1>1 DEF IssuesInv, RowsType, LabelsOwn, OfRepository, WordsStay

LEMMA AskStep ==
  ASSUME IssuesInv, NEW u \in People,
         \/ \E r \in Trackers : AskToOpen(u, r)
         \/ \E i \in DOMAIN issues, what \in {"comment", "react", "patch"} : AskOnIssue(u, i, what)
         \/ \E c \in DOMAIN notes : AskToEdit(u, c)
  PROVE  IssuesInv'
<1>1. UNCHANGED <<issues, labels, notes, gone, marks, cited>>
  BY DEF AskToOpen, AskOnIssue, AskToEdit
<1>2. AwaitedStands'
  <2>1. ASSUME NEW r \in Trackers, AskToOpen(u, r) PROVE AwaitedStands'
    BY <2>1 DEF AskToOpen, AwaitedStands
  <2>2. ASSUME NEW i \in DOMAIN issues, NEW what \in {"comment", "react", "patch"}, AskOnIssue(u, i, what)
        PROVE  AwaitedStands'
    BY <2>2 DEF AskOnIssue, AwaitedStands
  <2>3. ASSUME NEW c \in DOMAIN notes, AskToEdit(u, c) PROVE AwaitedStands'
    BY <2>3 DEF AskToEdit, AwaitedStands, MayEdit
  <2> QED BY <2>1, <2>2, <2>3
<1> QED BY <1>1, <1>2, RowsStay DEF IssuesInv, MarksOwn

LEMMA CommentStep ==
  ASSUME IssuesInv, NEW c \in NoteIds, Comment(c)
  PROVE  IssuesInv'
<1>1. /\ awaited.user \in People /\ awaited.issue \in DOMAIN issues /\ awaited.issue \in IssueIds
      /\ c \notin DOMAIN notes
  BY DEF Comment, IssuesInv, AwaitedStands, RowsType, NoRequest
<1> DEFINE row == [issue |-> awaited.issue, owner |-> awaited.user, words |-> awaited.user]
<1>2. /\ DOMAIN notes' = DOMAIN notes \cup {c} /\ notes'[c] = row /\ row \in NoteRow
      /\ \A k \in DOMAIN notes : notes'[k] = notes[k]
      /\ awaited' = NoRequest /\ UNCHANGED <<issues, labels, gone, marks, may, cited>>
  BY <1>1 DEF Comment, NoteRow
<1>3. notes' \in [DOMAIN notes' -> NoteRow]
  <2>1. \A k \in DOMAIN notes' : notes'[k] \in NoteRow
    BY <1>2 DEF IssuesInv, RowsType
  <2>2. notes' = [k \in DOMAIN notes' |-> notes'[k]]
    BY DEF Comment
  <2> HIDE DEF row
  <2> QED BY <2>1, <2>2
<1>4. Numbered'
  BY <1>2, NumbersStay
<1>5. row.words = row.owner
  OBVIOUS
<1> HIDE DEF row
<1> QED BY <1>1, <1>2, <1>3, <1>4, <1>5
        DEF IssuesInv, RowsType, AwaitedStands, LabelsOwn, OfRepository, MarksOwn, WordsStay

LEMMA EditStep == IssuesInv /\ EditComment => IssuesInv'
<1> SUFFICES ASSUME IssuesInv, EditComment PROVE IssuesInv'
  OBVIOUS
<1>1. /\ awaited.user \in People
      /\ awaited.note \in DOMAIN notes => notes[awaited.note].owner = awaited.user
  BY DEF EditComment, IssuesInv, AwaitedStands, NoRequest
<1>2. /\ DOMAIN notes' = DOMAIN notes /\ awaited' = NoRequest
      /\ UNCHANGED <<issues, labels, gone, marks, may, cited>>
  BY DEF EditComment
<1>3. \A k \in DOMAIN notes :
        /\ notes'[k] \in NoteRow /\ notes'[k].issue = notes[k].issue
        /\ notes'[k].owner = notes[k].owner
        /\ notes'[k].words \in {notes[k].words, notes[k].owner}
  BY <1>1 DEF EditComment, IssuesInv, RowsType, NoteRow
<1>4. notes' \in [DOMAIN notes' -> NoteRow]
  <2>1. notes' = [k \in DOMAIN notes' |-> notes'[k]]
    BY DEF EditComment
  <2> QED BY <1>2, <1>3, <2>1
<1>5. Numbered'
  BY <1>2, NumbersStay
<1> QED BY <1>2, <1>3, <1>4, <1>5
        DEF IssuesInv, RowsType, AwaitedStands, LabelsOwn, OfRepository, MarksOwn, WordsStay

LEMMA ReactStep ==
  ASSUME IssuesInv, NEW c \in NoteIds \cup {"issue"}, React(c)
  PROVE  IssuesInv'
<1>1. UNCHANGED <<issues, labels, notes, gone, cited>> /\ awaited' = NoRequest
  BY DEF React
<1>2. MarksOwn'
  BY <1>1 DEF React, OnIssue, IssuesInv, MarksOwn
<1> QED BY <1>1, <1>2, RowsStay DEF AwaitedStands

LEMMA PatchStep ==
  ASSUME IssuesInv, NEW l \in labels, PatchIssue(l)
  PROVE  IssuesInv'
<1> DEFINE i == awaited.issue
<1>1. i \in DOMAIN issues /\ awaited.repo = issues[i].repo /\ l \in LabelRow
  BY DEF PatchIssue, IssuesInv, AwaitedStands, RowsType, NoRequest
<1>2. /\ issues' = [issues EXCEPT ![i].labels = {l}] /\ awaited' = NoRequest
      /\ UNCHANGED <<labels, notes, gone, marks, may, cited>> /\ l.repo = awaited.repo
  BY DEF PatchIssue, OfRepository
<1> HIDE DEF i
<1>3. /\ DOMAIN issues' = DOMAIN issues /\ issues' \in [DOMAIN issues -> IssueRow]
      /\ \A k \in DOMAIN issues : /\ issues'[k].repo = issues[k].repo /\ issues'[k].number = issues[k].number
                                  /\ issues'[k].labels \in {issues[k].labels, {l}}
                                  /\ k # i => issues'[k].labels = issues[k].labels
  BY <1>1, <1>2 DEF IssuesInv, RowsType, IssueRow
<1>4. Numbered'
  BY <1>2, <1>3, NumbersStay
<1>5. LabelsOwn'
  BY <1>1, <1>2, <1>3 DEF IssuesInv, LabelsOwn, OfRepository
<1> QED BY <1>2, <1>3, <1>4, <1>5 DEF IssuesInv, RowsType, AwaitedStands, MarksOwn, WordsStay

LEMMA LabelStep ==
  ASSUME IssuesInv,
         \/ \E r \in Trackers, n \in LabelNames : MakeLabel(r, n)
         \/ \E u \in People, l \in labels : DeleteLabel(u, l)
  PROVE  IssuesInv'
<1>1. ASSUME NEW r \in Trackers, NEW n \in LabelNames, MakeLabel(r, n) PROVE IssuesInv'
  <2>1. UNCHANGED <<issues, notes, gone, marks, may, awaited, cited>> /\ labels \subseteq labels'
        /\ labels' \subseteq LabelRow
    BY <1>1 DEF MakeLabel, LabelRow, IssuesInv, RowsType
  <2>2. Numbered'
    BY <2>1, NumbersStay
  <2> QED BY <2>1, <2>2 DEF IssuesInv, RowsType, AwaitedStands, LabelsOwn, OfRepository, MarksOwn, WordsStay
<1>2. ASSUME NEW u \in People, NEW l \in labels, DeleteLabel(u, l) PROVE IssuesInv'
  <2>1. /\ issues' = [i \in DOMAIN issues |-> [issues[i] EXCEPT !.labels = @ \ {l}]] /\ labels' = labels \ {l}
        /\ UNCHANGED <<notes, gone, marks, may, awaited, cited>>
    BY <1>2 DEF DeleteLabel
  <2>2. /\ DOMAIN issues' = DOMAIN issues /\ issues' \in [DOMAIN issues -> IssueRow]
        /\ \A k \in DOMAIN issues : /\ issues'[k].repo = issues[k].repo /\ issues'[k].number = issues[k].number
                                    /\ issues'[k].labels = issues[k].labels \ {l}
    BY <2>1 DEF IssuesInv, RowsType, IssueRow
  <2>3. Numbered'
    BY <2>1, <2>2, NumbersStay
  <2>4. LabelsOwn'
    BY <2>1, <2>2 DEF IssuesInv, LabelsOwn, OfRepository
  <2>5. AwaitedStands'
    BY <2>1, <2>2 DEF IssuesInv, AwaitedStands
  <2> QED BY <2>1, <2>2, <2>3, <2>4, <2>5 DEF IssuesInv, RowsType, MarksOwn, WordsStay
<1> QED BY <1>1, <1>2

LEMMA DeleteCommentStep ==
  ASSUME IssuesInv, NEW u \in People, NEW c \in DOMAIN notes, DeleteComment(u, c)
  PROVE  IssuesInv'
<1>1. /\ notes' = [k \in DOMAIN notes \ {c} |-> notes[k]] /\ marks' = {m \in marks : m.on # c}
      /\ gone' = gone \cup {c} /\ UNCHANGED <<issues, labels, may, awaited, cited>>
  BY DEF DeleteComment
<1>2. /\ DOMAIN notes' = DOMAIN notes \ {c} /\ notes' \in [DOMAIN notes' -> NoteRow]
      /\ \A k \in DOMAIN notes' : notes'[k] = notes[k]
  BY <1>1 DEF IssuesInv, RowsType
<1>3. Numbered'
  BY <1>1, NumbersStay
<1>4. AwaitedStands'
  BY <1>1, <1>2 DEF IssuesInv, AwaitedStands
<1>5. MarksOwn' /\ WordsStay'
  BY <1>1, <1>2 DEF IssuesInv, MarksOwn, WordsStay
<1> QED BY <1>1, <1>2, <1>3, <1>4, <1>5 DEF IssuesInv, RowsType, LabelsOwn, OfRepository

\* The issues of a listing are numbered above what is there and in their own order.
LEMMA ImportNumbers ==
  ASSUME IssuesInv, NEW r \in Trackers, NEW L \in Listings
  PROVE  LET num(x) == NumberFor(r, x, Cardinality({y \in L : y.number < x.number}))
         IN  /\ \A x \in L : num(x) \in Nat /\ \A j \in Here(r) : issues[j].number < num(x)
             /\ \A x, y \in L : x.number < y.number => num(x) < num(y)
<1> DEFINE below(x) == {y \in L : y.number < x.number}
           before(x) == Cardinality(below(x))
<1>1. IsFiniteSet(L) /\ \A x \in L : x.number \in Nat
  BY IssuesAssumption
<1>2. \A x \in L : IsFiniteSet(below(x)) /\ before(x) \in Nat
  BY <1>1, FS_Subset, FS_CardinalityType
<1>3. ASSUME NEW x \in L, NEW y \in L, x.number < y.number PROVE before(x) < before(y)
  <2>1. below(x) \in SUBSET below(y) /\ x \in below(y) /\ x \notin below(x)
    BY <1>1, <1>3
  <2> HIDE DEF below
  <2>2. below(x) # below(y)
    BY <2>1
  <2>3. before(x) <= before(y) /\ before(x) # before(y)
    BY <1>2, <2>1, <2>2, FS_Subset
  <2> QED BY <1>2, <2>3
<1> HIDE DEF before
<1>4. Top(NumbersOf(r)) \in Nat /\ \A i \in Here(r) : issues[i].number \in Nat /\ issues[i].number <= Top(NumbersOf(r))
  <2>1. \A i \in Here(r) : issues[i].number \in Nat
    BY DEF Here, IssuesInv, RowsType, IssueRow
  <2> QED BY <2>1, TopIsHighest
<1>5. \A x \in L : /\ NumberFor(r, x, before(x)) \in Nat
                   /\ \A j \in Here(r) : issues[j].number < NumberFor(r, x, before(x))
  <2> SUFFICES ASSUME NEW x \in L
               PROVE  /\ NumberFor(r, x, before(x)) \in Nat
                      /\ \A j \in Here(r) : issues[j].number < NumberFor(r, x, before(x))
    OBVIOUS
  <2>1. before(x) \in Nat /\ x.number \in Nat
    BY <1>1, <1>2
  <2>2. CASE Here(r) = {}
    BY <2>1, <2>2 DEF NumberFor
  <2>3. CASE Here(r) # {}
    BY <1>4, <2>1, <2>3 DEF NumberFor
  <2> QED BY <2>2, <2>3
<1>6. \A x, y \in L : x.number < y.number => NumberFor(r, x, before(x)) < NumberFor(r, y, before(y))
  <2> SUFFICES ASSUME NEW x \in L, NEW y \in L, x.number < y.number
               PROVE  NumberFor(r, x, before(x)) < NumberFor(r, y, before(y))
    OBVIOUS
  <2>1. before(x) \in Nat /\ before(y) \in Nat /\ before(x) < before(y)
    BY <1>2, <1>3
  <2> QED BY <1>4, <2>1 DEF NumberFor
<1> QED BY <1>5, <1>6 DEF before

LEMMA ImportStep ==
  ASSUME IssuesInv, NEW u \in People, NEW r \in Trackers, NEW L \in Listings,
         NEW note \in NoteIds \ (DOMAIN notes \cup gone), NEW slot \in [L -> IssueIds \ DOMAIN issues],
         \A x, y \in L : slot[x] = slot[y] => x = y,
         ImportIssues(u, r, L, slot, note)
  PROVE  IssuesInv'
<1>1. CASE UNCHANGED <<issues, labels, notes, cited>>
  BY <1>1, RowsStay DEF ImportIssues, IssuesInv, AwaitedStands, MarksOwn
<1>2. CASE ~ \E x \in L : x.label \in BadNames
  <2> DEFINE num(x) == NumberFor(r, x, Cardinality({y \in L : y.number < x.number}))
             row(x) == [Opened(r, num(x)) EXCEPT !.labels = {[repo |-> r, name |-> x.label]}]
             of(k) == CHOOSE y \in L : slot[y] = k
             N == {slot[x] : x \in L}
             first == CHOOSE x \in L : \A y \in L : x.number <= y.number
  <2>1. /\ \A x \in L : x.number \in Nat /\ x.label \in LabelNames
        /\ \A x, y \in L : x.number = y.number => x = y
        /\ \E x \in L : \A y \in L : x.number <= y.number
        /\ \E x \in L : \A y \in L : y.number <= x.number
    BY IssuesAssumption
  <2>2. /\ \A x \in L : num(x) \in Nat /\ \A j \in Here(r) : issues[j].number < num(x)
        /\ \A x, y \in L : x.number < y.number => num(x) < num(y)
    BY ImportNumbers
  <2>3. /\ labels' = labels \cup {[repo |-> r, name |-> x.label] : x \in L}
        /\ issues' = [k \in DOMAIN issues \cup N |-> IF k \in DOMAIN issues THEN issues[k] ELSE row(of(k))]
        /\ notes' = [k \in DOMAIN notes \cup {note} |->
                       IF k \in DOMAIN notes THEN notes[k]
                       ELSE [issue |-> slot[first], owner |-> u, words |-> "elsewhere"]]
        /\ cited' = Cite(N) /\ UNCHANGED <<gone, marks, may, awaited>>
    BY <1>2 DEF ImportIssues
  <2> HIDE DEF num
  <2>4. \A x \in L : /\ row(x) \in IssueRow /\ row(x).repo = r /\ row(x).number = num(x)
                     /\ row(x).labels = {[repo |-> r, name |-> x.label]}
    BY <2>1, <2>2 DEF Opened, IssueRow, LabelRow
  <2> HIDE DEF row
  <2>5. N \subseteq IssueIds \ DOMAIN issues /\ \A x \in L : slot[x] \in N /\ of(slot[x]) = x
    OBVIOUS
  <2>6. first \in L
    BY <2>1
  <2> HIDE DEF of, first
  <2>7. /\ DOMAIN issues' = DOMAIN issues \cup N /\ \A k \in DOMAIN issues : issues'[k] = issues[k]
        /\ \A x \in L : issues'[slot[x]] = row(x)
    BY <2>3, <2>5
  <2>8. issues' \in [DOMAIN issues' -> IssueRow]
    <3>1. \A k \in N : \E x \in L : k = slot[x]
      OBVIOUS
    <3> HIDE DEF N
    <3>2. \A k \in DOMAIN issues' : issues'[k] \in IssueRow
      BY <2>4, <2>7, <3>1 DEF IssuesInv, RowsType
    <3>3. issues' = [k \in DOMAIN issues' |-> issues'[k]]
      BY <2>3
    <3> QED BY <3>2, <3>3
  <2>9. \A k \in N : \E x \in L : k = slot[x] /\ issues'[k] = row(x)
    BY <2>7
  <2> HIDE DEF N
  <2>10. Numbered'
    <3>1. \A k \in N : issues'[k].repo = r /\ \A j \in Here(r) : issues[j].number < issues'[k].number
      BY <2>2, <2>4, <2>9
    <3>2. ASSUME NEW k \in N, NEW l \in N, issues'[k].number = issues'[l].number PROVE k = l
      <4>1. PICK x \in L : k = slot[x] /\ issues'[k] = row(x)
        BY <2>9
      <4>2. PICK y \in L : l = slot[y] /\ issues'[l] = row(y)
        BY <2>9
      <4>3. num(x) = num(y) /\ num(x) \in Nat /\ x.number \in Nat /\ y.number \in Nat
        BY <2>1, <2>2, <2>4, <3>2, <4>1, <4>2
      <4>4. ~(x.number < y.number) /\ ~(y.number < x.number)
        BY <2>2, <4>3
      <4>5. x.number = y.number
        BY <4>3, <4>4
      <4> QED BY <2>1, <4>1, <4>2, <4>5
    <3>3. \E k \in N : \A l \in N : issues'[l].number <= issues'[k].number
      <4>1. PICK x \in L : \A y \in L : y.number <= x.number
        BY <2>1
      <4>2. ASSUME NEW l \in N PROVE issues'[l].number <= issues'[slot[x]].number
        <5>1. PICK y \in L : l = slot[y] /\ issues'[l] = row(y)
          BY <2>9
        <5>2. y.number <= x.number /\ y.number \in Nat /\ x.number \in Nat /\ num(x) \in Nat /\ num(y) \in Nat
          BY <2>1, <2>2, <4>1
        <5>3. y = x \/ y.number < x.number
          BY <2>1, <5>2
        <5>4. num(y) <= num(x)
          BY <2>2, <5>2, <5>3
        <5> QED BY <2>4, <2>7, <5>1, <5>4
      <4> QED BY <2>5, <4>2
    <3>4. \A k, l \in N : issues'[k].number = issues'[l].number => k = l
      BY <3>2
    <3> QED BY <2>3, <2>5, <2>7, <2>8, <3>1, <3>3, <3>4, RowsCome
  <2>11. RowsType'
    <3>1. [issue |-> slot[first], owner |-> u, words |-> "elsewhere"] \in NoteRow
      BY <2>6 DEF NoteRow
    <3>2. notes' \in [DOMAIN notes' -> NoteRow]
      BY <2>3, <3>1 DEF IssuesInv, RowsType
    <3>3. labels' \subseteq LabelRow
      BY <2>1, <2>3 DEF IssuesInv, RowsType, LabelRow
    <3> QED BY <2>5, <2>7, <2>8, <3>2, <3>3 DEF IssuesInv, RowsType
  <2>12. AwaitedStands'
    BY <2>3, <2>7 DEF IssuesInv, AwaitedStands
  <2>13. LabelsOwn'
    <3>1. ASSUME NEW x \in L PROVE [repo |-> r, name |-> x.label] \in labels'
      BY <2>3
    <3>2. \A k \in N : \A l \in issues'[k].labels : l \in labels' /\ l.repo = issues'[k].repo
      BY <2>4, <2>9, <3>1
    <3>3. \A k \in DOMAIN issues : \A l \in issues'[k].labels : l \in labels' /\ l.repo = issues'[k].repo
      BY <2>3, <2>7 DEF IssuesInv, LabelsOwn, OfRepository
    <3> QED BY <2>7, <3>2, <3>3 DEF LabelsOwn, OfRepository
  <2>14. MarksOwn' /\ WordsStay'
    BY <2>3 DEF IssuesInv, MarksOwn, WordsStay
  <2> QED BY <2>10, <2>11, <2>12, <2>13, <2>14 DEF IssuesInv
<1> QED BY <1>1, <1>2 DEF ImportIssues

LEMMA IssuesStep == IssuesInv /\ [IssuesNext]_issueVars => IssuesInv'
<1> SUFFICES ASSUME IssuesInv, [IssuesNext]_issueVars PROVE IssuesInv'
  OBVIOUS
<1>1. CASE UNCHANGED issueVars
  BY <1>1, RowsStay DEF issueVars, IssuesInv, AwaitedStands, MarksOwn
<1>2. CASE CommentNext
  BY <1>2, AskStep, DeleteCommentStep, EditStep, CommentStep DEF CommentNext
<1>3. CASE ReactionNext
  BY <1>3, AskStep, ReactStep DEF ReactionNext
<1>4. CASE TaxonomyNext
  BY <1>4, AskStep, LabelStep, PatchStep DEF TaxonomyNext
<1>5. CASE Refuse \/ PermissionChanges
  BY <1>5, RowsStay DEF Refuse, PermissionChanges, IssuesInv, AwaitedStands, MarksOwn
<1>6. ASSUME NEW u \in People, NEW r \in Trackers, AskToOpen(u, r) PROVE IssuesInv'
  BY <1>6, AskStep
<1>7. ASSUME NEW i \in IssueIds, OpenIssue(i) PROVE IssuesInv'
  BY <1>7, OpenStep
<1>8. ASSUME NEW u \in People, NEW r \in Trackers, NEW L \in Listings,
             NEW note \in NoteIds \ (DOMAIN notes \cup gone),
             NEW slot \in {f \in [L -> IssueIds \ DOMAIN issues] : \A x, y \in L : f[x] = f[y] => x = y},
             ImportIssues(u, r, L, slot, note)
      PROVE  IssuesInv'
  BY <1>8, ImportStep
<1> QED BY <1>1, <1>2, <1>3, <1>4, <1>5, <1>6, <1>7, <1>8 DEF IssuesNext

\* #n of a repository has always meant one issue, labels and reactions stay with their
\* own, and nobody has words put into a comment but the owner, whatever was deleted,
\* withdrawn or imported meanwhile (app.mjs, issue-comments.mjs, forge-issues.mjs).
THEOREM IssuesHold == IssuesSpec => []IssuesSound
<1>1. IssuesInit => IssuesInv
  BY DEF IssuesInit, IssuesInv, RowsType, AwaitedStands, Numbered, NumbersApart, HighestThere, Here, CitedAsIs,
         LabelsOwn, MarksOwn, WordsStay
<1> QED BY <1>1, IssuesStep, IssuesFollow, PTL DEF IssuesSpec

\* Issues and notifications, which share no state: what people write stays where it was
\* written, and they are told what concerns them while they may see it.
THEOREM CollaborationHolds == IssuesSpec /\ NotifySpec => []CollaborationSound
BY IssuesHold, NotificationsHold, PTL DEF CollaborationSound

(***************************************************************************)
(* Signing in: what was taken is behind the factor it was taken from, an   *)
(* attempt is a challenge or a session, and passwords only move on.        *)
(***************************************************************************)
Codes == {"step", "sheet"} \X Nat \X Nat

SignInType ==
  /\ SignInTypeOK
  /\ sessions \subseteq [n : Nat, user : Accounts, pw : Nat, by : Codes \cup {NoCode}]
  /\ challenges \subseteq [n : Nat, user : Accounts, pw : Nat]
  /\ \A a \in accepted : a.user \in Accounts /\ a.code \in Codes

\* A step that was taken is of an earlier secret, or no later than the last; a recovery
\* code of an earlier sheet, or no longer on it.
TakenIsBehind ==
  /\ \A u \in Accounts : /\ factor[u].secret <= sheet[u]
                         /\ factor[u].phase # "off" => factor[u].secret >= 1
  /\ \A a \in accepted : a.code[1] = "step" =>
       /\ a.code[2] \in 1 .. sheet[a.user]
       /\ a.code[2] = factor[a.user].secret => /\ factor[a.user].phase = "on"
                                               /\ a.code[3] <= factor[a.user].last
  /\ \A a \in accepted : a.code[1] = "sheet" =>
       /\ a.code[2] <= sheet[a.user]
       /\ a.code[2] = sheet[a.user] => a.code[3] \notin codes[a.user]

AttemptsApart ==
  /\ \A c \in challenges : c.n <= signIns /\ \A s \in sessions : c.n # s.n
  /\ \A c, d \in challenges : c.n = d.n => c = d
  /\ \A s \in sessions : s.n <= signIns

PasswordsMoveOn ==
  /\ \A c \in challenges : c.pw <= password[c.user]
  /\ \A s \in sessions : /\ s.pw <= password[s.user]
                         /\ s.by = NoCode => s.pw \in {0, password[s.user]}
  /\ \A u \in Accounts : /\ password[u] <= 1 + issued[u]
                         /\ link[u] = "live" => password[u] <= issued[u]

Attempts == AttemptsApart /\ OneSessionEach
SignInInv == SignInType /\ TakenIsBehind /\ CodesTakenOnce /\ Attempts /\ PasswordsMoveOn

LEMMA SignInFollows == SignInInv => SignInSound
<1> SUFFICES ASSUME SignInInv PROVE ResetsHold
  BY DEF SignInInv, Attempts, SignInSound
<1>1. password \in [Accounts -> Nat] /\ issued \in [Accounts -> Nat]
      /\ \A s \in sessions : s.user \in Accounts /\ s.pw \in Nat
  BY DEF SignInInv, SignInType, SignInTypeOK
<1>2. \A s \in sessions : s.pw > 0 /\ s.pw # password[s.user] => s.by # NoCode /\ s.pw < password[s.user]
  BY <1>1 DEF SignInInv, PasswordsMoveOn
<1>3. \A u \in Accounts : password[u] > 0 => password[u] <= 1 + issued[u]
  BY DEF SignInInv, PasswordsMoveOn
<1> QED BY <1>2, <1>3 DEF ResetsHold

\* A code that passes was never taken before.
LEMMA AcceptedIsNew ==
  ASSUME SignInInv, NEW u \in Accounts, NEW code \in Codes, Accepts(u, code)
  PROVE  \A a \in accepted : a.user = u => a.code # code
<1> SUFFICES ASSUME NEW a \in accepted, a.user = u, a.code = code PROVE FALSE
  OBVIOUS
<1>1. factor[u].last \in Int /\ code[3] \in Nat
  BY DEF SignInInv, SignInType, SignInTypeOK, Codes
<1>2. CASE code[1] = "step"
  BY <1>1, <1>2 DEF Accepts, Fresh, SignInInv, TakenIsBehind
<1>3. CASE code[1] = "sheet"
  BY <1>3 DEF Accepts, SignInInv, TakenIsBehind
<1> QED BY <1>2, <1>3 DEF Accepts

\* A code is taken by a factor that is then past it.
LEMMA TakeStands ==
  ASSUME SignInInv, NEW u \in Accounts, NEW code \in Codes, Take(u, code),
         \A a \in accepted : a.user = u => a.code # code
  PROVE  /\ CodesTakenOnce'
         /\ \A a \in accepted' : a.user \in Accounts /\ a.code \in Codes
         /\ \A a \in accepted' : a \in accepted \/ (a.user = u /\ a.code = code)
BY DEF SignInInv, SignInType, CodesTakenOnce, Take

LEMMA CodesInCodes ==
  ASSUME SignInInv, NEW u \in Accounts, NEW code \in CodesOf(u)
  PROVE  code \in Codes
BY SignInAssumption DEF CodesOf, Codes, SignInInv, SignInType, SignInTypeOK

\* The factors and what was taken, where nothing of them is written.
LEMMA FactorsStay ==
  ASSUME SignInInv, UNCHANGED <<factor, sheet, codes, accepted>>
  PROVE  TakenIsBehind' /\ CodesTakenOnce'
BY DEF SignInInv, TakenIsBehind, CodesTakenOnce

LEMMA SpendStep ==
  ASSUME SignInInv, NEW u \in Accounts, NEW code \in Codes, Spend(u, code), sheet' = sheet
  PROVE  /\ TakenIsBehind' /\ CodesTakenOnce'
         /\ \A a \in accepted' : a.user \in Accounts /\ a.code \in Codes
         /\ codes' \in [Accounts -> SUBSET (1 .. RecoveryCodes)]
         /\ factor' \in [Accounts -> [phase : {"off", "pending", "on"}, secret : Nat, last : Int]]
<1>1. Accepts(u, code) /\ Take(u, code)
  BY DEF Spend
<1>2. /\ CodesTakenOnce'
      /\ \A a \in accepted' : a.user \in Accounts /\ a.code \in Codes
      /\ \A a \in accepted' : a \in accepted \/ (a.user = u /\ a.code = code)
  BY <1>1, AcceptedIsNew, TakeStands
<1>3. /\ factor \in [Accounts -> [phase : {"off", "pending", "on"}, secret : Nat, last : Int]]
      /\ codes \in [Accounts -> SUBSET (1 .. RecoveryCodes)] /\ sheet \in [Accounts -> Nat]
      /\ TakenIsBehind /\ code[2] \in Nat /\ code[3] \in Nat
      /\ \A a \in accepted : a.user \in Accounts /\ a.code[3] \in Nat
  BY DEF SignInInv, SignInType, SignInTypeOK, Codes
<1>4. CASE code[1] = "step"
  <2>1. /\ factor' = [factor EXCEPT ![u].last = code[3]] /\ codes' = codes
        /\ factor[u].phase = "on" /\ code[2] = factor[u].secret /\ code[3] > factor[u].last
    BY <1>1, <1>4 DEF Spend, Accepts, Fresh
  <2>2. /\ factor'[u].phase = "on" /\ factor'[u].secret = factor[u].secret /\ factor'[u].last = code[3]
        /\ \A v \in Accounts \ {u} : factor'[v] = factor[v]
        /\ factor' \in [Accounts -> [phase : {"off", "pending", "on"}, secret : Nat, last : Int]]
    BY <1>3, <2>1
  <2>3. \A v \in Accounts : factor'[v].secret <= sheet[v] /\ (factor'[v].phase # "off" => factor'[v].secret >= 1)
    BY <1>3, <2>1, <2>2 DEF TakenIsBehind
  <2>4. ASSUME NEW a \in accepted', a.code[1] = "step"
        PROVE  /\ a.code[2] \in 1 .. sheet[a.user]
               /\ a.code[2] = factor'[a.user].secret => /\ factor'[a.user].phase = "on"
                                                        /\ a.code[3] <= factor'[a.user].last
    <3>1. CASE a \in accepted
      <4>1. /\ a.code[2] \in 1 .. sheet[a.user]
            /\ a.code[2] = factor[a.user].secret => factor[a.user].phase = "on" /\ a.code[3] <= factor[a.user].last
        BY <1>3, <2>4, <3>1 DEF TakenIsBehind
      <4>2. factor[u].last \in Int /\ a.code[3] \in Nat /\ a.user \in Accounts
        BY <1>3, <3>1
      <4> QED BY <1>3, <2>1, <2>2, <4>1, <4>2
    <3>2. CASE a.user = u /\ a.code = code
      BY <1>3, <2>1, <2>2, <2>3, <3>2
    <3> QED BY <1>2, <3>1, <3>2
  <2>5. \A a \in accepted' : a.code[1] = "sheet" => a \in accepted
    BY <1>2, <1>4
  <2> QED BY <1>2, <1>3, <2>1, <2>2, <2>3, <2>4, <2>5 DEF TakenIsBehind
<1>5. CASE code[1] = "sheet"
  <2>1. /\ codes' = [codes EXCEPT ![u] = @ \ {code[3]}] /\ factor' = factor /\ code[2] = sheet[u]
    BY <1>1, <1>5 DEF Spend, Accepts
  <2>2. \A a \in accepted' : a.code[1] = "step" => a \in accepted
    BY <1>2, <1>5
  <2>3. ASSUME NEW a \in accepted', a.code[1] = "sheet"
        PROVE  a.code[2] <= sheet[a.user] /\ (a.code[2] = sheet[a.user] => a.code[3] \notin codes'[a.user])
    <3>1. CASE a \in accepted
      BY <1>3, <2>1, <2>3, <3>1 DEF TakenIsBehind
    <3>2. CASE a.user = u /\ a.code = code
      BY <1>3, <2>1, <3>2
    <3> QED BY <1>2, <3>1, <3>2
  <2> QED BY <1>2, <1>3, <2>1, <2>2, <2>3 DEF TakenIsBehind
<1> QED BY <1>1, <1>4, <1>5 DEF Accepts


\* The factors after a step: typed, and past what was taken.
FactorsNext ==
  /\ TakenIsBehind' /\ CodesTakenOnce'
  /\ \A a \in accepted' : a.user \in Accounts /\ a.code \in Codes
  /\ sheet' \in [Accounts -> Nat] /\ codes' \in [Accounts -> SUBSET (1 .. RecoveryCodes)]
  /\ factor' \in [Accounts -> [phase : {"off", "pending", "on"}, secret : Nat, last : Int]]

\* The attempts and the passwords after a step.
AttemptsNext ==
  /\ sessions' \subseteq [n : Nat, user : Accounts, pw : Nat, by : Codes \cup {NoCode}]
  /\ challenges' \subseteq [n : Nat, user : Accounts, pw : Nat]
  /\ password' \in [Accounts -> Nat] /\ issued' \in [Accounts -> Nat] /\ signIns' \in Nat
  /\ link' \in [Accounts -> {"none", "live", "used"}]
  /\ Attempts' /\ PasswordsMoveOn'

LEMMA BothNext == FactorsNext /\ AttemptsNext /\ step' \in Nat => SignInInv'
BY DEF FactorsNext, AttemptsNext, SignInInv, SignInType, SignInTypeOK

LEMMA FactorsKept == SignInInv /\ UNCHANGED factorVars => FactorsNext
BY FactorsStay DEF factorVars, FactorsNext, SignInInv, SignInType, SignInTypeOK

LEMMA AttemptsKept ==
  SignInInv /\ UNCHANGED <<resetVars, challenges, sessions, signIns>> => AttemptsNext
BY DEF resetVars, AttemptsNext, SignInInv, SignInType, SignInTypeOK, Attempts, AttemptsApart,
       OneSessionEach, PasswordsMoveOn

\* What the attempts and the passwords are before a step.
LEMMA AttemptsNow ==
  ASSUME SignInInv
  PROVE  /\ sessions \subseteq [n : Nat, user : Accounts, pw : Nat, by : Codes \cup {NoCode}]
         /\ challenges \subseteq [n : Nat, user : Accounts, pw : Nat]
         /\ password \in [Accounts -> Nat] /\ issued \in [Accounts -> Nat] /\ signIns \in Nat
         /\ link \in [Accounts -> {"none", "live", "used"}] /\ step \in Nat
         /\ AttemptsApart /\ OneSessionEach /\ PasswordsMoveOn
BY DEF SignInInv, SignInType, SignInTypeOK, Attempts

\* An attempt of a new number: a challenge or a session of the present password.
LEMMA AttemptBegins ==
  ASSUME SignInInv, NEW u \in Accounts, NEW pw \in {0, password[u]}, signIns' = signIns + 1,
         UNCHANGED resetVars,
         \/ /\ challenges' = challenges \cup {[n |-> signIns', user |-> u, pw |-> pw]}
            /\ sessions' = sessions
         \/ /\ sessions' = sessions \cup {Session(signIns', u, pw, NoCode)}
            /\ challenges' = challenges
  PROVE  AttemptsNext
<1>1. /\ sessions \subseteq [n : Nat, user : Accounts, pw : Nat, by : Codes \cup {NoCode}]
      /\ challenges \subseteq [n : Nat, user : Accounts, pw : Nat]
      /\ password \in [Accounts -> Nat] /\ issued \in [Accounts -> Nat] /\ signIns \in Nat
      /\ link \in [Accounts -> {"none", "live", "used"}]
      /\ AttemptsApart /\ OneSessionEach /\ PasswordsMoveOn
  BY AttemptsNow
<1>2. /\ password' = password /\ issued' = issued /\ link' = link /\ pw \in Nat
      /\ pw <= password[u] /\ signIns' \in Nat /\ signIns' > signIns
  BY <1>1 DEF resetVars
<1>3. /\ \A c \in challenges : c.n # signIns' /\ c.n <= signIns' /\ c.n \in Nat
      /\ \A s \in sessions : s.n # signIns' /\ s.n <= signIns' /\ s.n \in Nat
  BY <1>1, <1>2 DEF AttemptsApart
<1>4. CASE challenges' = challenges \cup {[n |-> signIns', user |-> u, pw |-> pw]} /\ sessions' = sessions
  <2>1. challenges' \subseteq [n : Nat, user : Accounts, pw : Nat]
    BY <1>1, <1>2, <1>4
  <2>2. AttemptsApart' /\ OneSessionEach'
    BY <1>1, <1>3, <1>4 DEF AttemptsApart, OneSessionEach
  <2>3. PasswordsMoveOn'
    BY <1>1, <1>2, <1>4 DEF PasswordsMoveOn
  <2> QED BY <1>1, <1>2, <1>4, <2>1, <2>2, <2>3 DEF AttemptsNext, Attempts
<1>5. CASE sessions' = sessions \cup {Session(signIns', u, pw, NoCode)} /\ challenges' = challenges
  <2>1. sessions' \subseteq [n : Nat, user : Accounts, pw : Nat, by : Codes \cup {NoCode}]
    BY <1>1, <1>2, <1>5 DEF Session
  <2>2. AttemptsApart' /\ OneSessionEach'
    BY <1>1, <1>3, <1>5 DEF AttemptsApart, OneSessionEach, Session
  <2>3. PasswordsMoveOn'
    BY <1>1, <1>2, <1>5 DEF PasswordsMoveOn, Session
  <2> QED BY <1>1, <1>2, <1>5, <2>1, <2>2, <2>3 DEF AttemptsNext, Attempts
<1> QED BY <1>4, <1>5

\* Attempts that only go: a challenge that expires or fails, a session that ends.
LEMMA AttemptsGo ==
  ASSUME SignInInv, challenges' \subseteq challenges, sessions' \subseteq sessions,
         UNCHANGED <<resetVars, signIns>>
  PROVE  AttemptsNext
BY AttemptsNow DEF resetVars, AttemptsNext, Attempts, AttemptsApart, OneSessionEach, PasswordsMoveOn

LEMMA LoginStep ==
  ASSUME SignInInv, NEW u \in Accounts, Login(u) \/ ProviderSignIn(u)
  PROVE  SignInInv'
<1>1. FactorsNext /\ step' \in Nat
  BY FactorsKept, AttemptsNow DEF Login, ProviderSignIn
<1>2. AttemptsNext
  <2>1. CASE Login(u)
    BY <2>1, AttemptBegins DEF Login
  <2>2. CASE ProviderSignIn(u)
    BY <2>2, AttemptBegins DEF ProviderSignIn
  <2> QED BY <2>1, <2>2
<1> QED BY <1>1, <1>2, BothNext

LEMMA FinishStep ==
  ASSUME SignInInv, NEW ch \in challenges, NEW code \in CodesOf(ch.user), FinishSignIn(ch, code)
  PROVE  SignInInv'
<1>1. /\ sessions \subseteq [n : Nat, user : Accounts, pw : Nat, by : Codes \cup {NoCode}]
      /\ challenges \subseteq [n : Nat, user : Accounts, pw : Nat]
      /\ password \in [Accounts -> Nat] /\ issued \in [Accounts -> Nat] /\ signIns \in Nat
      /\ link \in [Accounts -> {"none", "live", "used"}] /\ step \in Nat
      /\ AttemptsApart /\ OneSessionEach /\ PasswordsMoveOn
  BY AttemptsNow
<1>2. ch.user \in Accounts /\ ch.n \in Nat /\ ch.pw \in Nat /\ code \in Codes
  BY <1>1, CodesInCodes
<1>3. /\ sheet' = sheet /\ UNCHANGED <<resetVars, signIns, step>> /\ challenges' = challenges \ {ch}
  BY DEF FinishSignIn
<1>4. CASE ~Accepts(ch.user, code) /\ UNCHANGED <<factor, codes, accepted, sessions>>
  BY <1>1, <1>3, <1>4, AttemptsGo, FactorsKept, BothNext DEF factorVars
<1>5. CASE Spend(ch.user, code) /\ sessions' = sessions \cup {Session(ch.n, ch.user, ch.pw, code)}
  <2>1. FactorsNext
    BY <1>2, <1>3, <1>5, SpendStep DEF FactorsNext, SignInInv, SignInType, SignInTypeOK
  <2>2. sessions' \subseteq [n : Nat, user : Accounts, pw : Nat, by : Codes \cup {NoCode}]
    BY <1>1, <1>2, <1>5 DEF Session
  <2>3. AttemptsApart' /\ OneSessionEach'
    BY <1>1, <1>2, <1>3, <1>5 DEF AttemptsApart, OneSessionEach, Session
  <2>4. password' = password /\ issued' = issued /\ link' = link /\ signIns' = signIns
    BY <1>3 DEF resetVars
  <2>5. code # NoCode
    BY <1>2 DEF Codes, NoCode
  <2>6. PasswordsMoveOn'
    BY <1>1, <1>2, <1>3, <1>5, <2>4, <2>5 DEF PasswordsMoveOn, Session
  <2>7. AttemptsNext
    BY <1>1, <1>3, <2>2, <2>3, <2>4, <2>6 DEF AttemptsNext, Attempts
  <2> QED BY <1>1, <1>3, <2>1, <2>7, BothNext
<1> QED BY <1>4, <1>5 DEF FinishSignIn

LEMMA AttemptsGoStep ==
  ASSUME SignInInv,
         (\E ch \in challenges : ChallengeExpires(ch)) \/ (\E s \in sessions : SessionEnds(s))
  PROVE  SignInInv'
<1>1. FactorsNext /\ step' \in Nat
  BY FactorsKept, AttemptsNow DEF ChallengeExpires, SessionEnds
<1>2. challenges' \subseteq challenges /\ sessions' \subseteq sessions /\ UNCHANGED <<resetVars, signIns>>
  BY DEF ChallengeExpires, SessionEnds
<1> QED BY <1>1, <1>2, AttemptsGo, BothNext

\* What the factors are before a step.
LEMMA FactorsNow ==
  ASSUME SignInInv
  PROVE  /\ factor \in [Accounts -> [phase : {"off", "pending", "on"}, secret : Nat, last : Int]]
         /\ codes \in [Accounts -> SUBSET (1 .. RecoveryCodes)] /\ sheet \in [Accounts -> Nat]
         /\ TakenIsBehind /\ CodesTakenOnce /\ step \in Nat
         /\ \A a \in accepted : a.user \in Accounts /\ a.code \in Codes
                                /\ a.code[2] \in Nat /\ a.code[3] \in Nat
BY DEF SignInInv, SignInType, SignInTypeOK, Codes

\* A new secret and a new sheet are past all that was taken.
LEMMA EnrolStep ==
  ASSUME SignInInv, NEW u \in Accounts, BeginEnrolment(u)
  PROVE  FactorsNext
<1>1. /\ factor \in [Accounts -> [phase : {"off", "pending", "on"}, secret : Nat, last : Int]]
      /\ codes \in [Accounts -> SUBSET (1 .. RecoveryCodes)] /\ sheet \in [Accounts -> Nat]
      /\ TakenIsBehind /\ CodesTakenOnce
      /\ \A a \in accepted : a.user \in Accounts /\ a.code \in Codes
                             /\ a.code[2] \in Nat /\ a.code[3] \in Nat
  BY FactorsNow
<1>2. /\ sheet' = [sheet EXCEPT ![u] = @ + 1]
      /\ factor' = [factor EXCEPT ![u] = [phase |-> "pending", secret |-> sheet'[u], last |-> -1]]
      /\ codes' = [codes EXCEPT ![u] = 1 .. RecoveryCodes] /\ accepted' = accepted
  BY DEF BeginEnrolment, NewSheet
<1>3. /\ sheet' \in [Accounts -> Nat] /\ sheet'[u] = sheet[u] + 1
      /\ \A v \in Accounts \ {u} : sheet'[v] = sheet[v] /\ codes'[v] = codes[v] /\ factor'[v] = factor[v]
  BY <1>1, <1>2
<1>4. /\ codes' \in [Accounts -> SUBSET (1 .. RecoveryCodes)]
      /\ factor'[u] = [phase |-> "pending", secret |-> sheet[u] + 1, last |-> -1]
      /\ factor' \in [Accounts -> [phase : {"off", "pending", "on"}, secret : Nat, last : Int]]
  BY <1>1, <1>2, <1>3
<1>5. \A v \in Accounts : factor'[v].secret <= sheet'[v] /\ (factor'[v].phase # "off" => factor'[v].secret >= 1)
  BY <1>1, <1>3, <1>4 DEF TakenIsBehind
<1>6. ASSUME NEW a \in accepted, a.code[1] = "step"
      PROVE  /\ a.code[2] \in 1 .. sheet'[a.user]
             /\ a.code[2] = factor'[a.user].secret => /\ factor'[a.user].phase = "on"
                                                      /\ a.code[3] <= factor'[a.user].last
  <2>1. a.code[2] \in 1 .. sheet[a.user]
    BY <1>1, <1>6 DEF TakenIsBehind
  <2>2. CASE a.user = u
    BY <1>1, <1>3, <1>4, <2>1, <2>2
  <2>3. CASE a.user # u
    BY <1>1, <1>3, <1>6, <2>3 DEF TakenIsBehind
  <2> QED BY <2>2, <2>3
<1>7. ASSUME NEW a \in accepted, a.code[1] = "sheet"
      PROVE  a.code[2] <= sheet'[a.user] /\ (a.code[2] = sheet'[a.user] => a.code[3] \notin codes'[a.user])
  BY <1>1, <1>3, <1>7 DEF TakenIsBehind
<1>8. TakenIsBehind' /\ CodesTakenOnce'
  BY <1>1, <1>2, <1>5, <1>6, <1>7 DEF TakenIsBehind, CodesTakenOnce
<1> QED BY <1>1, <1>2, <1>3, <1>4, <1>8 DEF FactorsNext

\* The code that confirms is the first of its secret.
LEMMA ConfirmStep ==
  ASSUME SignInInv, NEW u \in Accounts, NEW t \in 0 .. (LastStep + WindowSteps), ConfirmEnrolment(u, t)
  PROVE  FactorsNext
<1> DEFINE code == <<"step", factor[u].secret, t>>
<1>1. /\ factor \in [Accounts -> [phase : {"off", "pending", "on"}, secret : Nat, last : Int]]
      /\ codes \in [Accounts -> SUBSET (1 .. RecoveryCodes)] /\ sheet \in [Accounts -> Nat]
      /\ TakenIsBehind
      /\ \A a \in accepted : a.user \in Accounts /\ a.code \in Codes
                             /\ a.code[2] \in Nat /\ a.code[3] \in Nat
  BY FactorsNow
<1>2. /\ factor[u].phase = "pending" /\ factor' = [factor EXCEPT ![u].phase = "on", ![u].last = t]
      /\ Take(u, code) /\ sheet' = sheet /\ codes' = codes
  BY DEF ConfirmEnrolment
<1>3. t \in Nat /\ code \in Codes /\ factor[u].secret \in 1 .. sheet[u]
  <2>1. t \in Nat /\ factor[u].secret \in Nat
    BY <1>1, SignInAssumption
  <2> QED BY <1>1, <1>2, <2>1 DEF Codes, TakenIsBehind
<1>4. \A a \in accepted : a.user = u => a.code # code
  BY <1>1, <1>2 DEF TakenIsBehind
<1>5. /\ CodesTakenOnce'
      /\ \A a \in accepted' : a.user \in Accounts /\ a.code \in Codes
      /\ \A a \in accepted' : a \in accepted \/ (a.user = u /\ a.code = code)
  <2> HIDE DEF code
  <2> QED BY <1>2, <1>3, <1>4, TakeStands
<1>6. /\ factor'[u].phase = "on" /\ factor'[u].secret = factor[u].secret /\ factor'[u].last = t
      /\ \A v \in Accounts \ {u} : factor'[v] = factor[v]
      /\ factor' \in [Accounts -> [phase : {"off", "pending", "on"}, secret : Nat, last : Int]]
  <2>1. factor[u] \in [phase : {"off", "pending", "on"}, secret : Nat, last : Int] /\ t \in Int
    BY <1>1, <1>3
  <2>2. DOMAIN factor' = Accounts /\ \A v \in Accounts \ {u} : factor'[v] = factor[v]
    BY <1>1, <1>2
  <2>3. factor'[u] = [factor[u] EXCEPT !.phase = "on", !.last = t]
    BY <1>1, <1>2, <2>1
  <2>4. factor'[u].phase = "on" /\ factor'[u].secret = factor[u].secret /\ factor'[u].last = t
    BY <2>1, <2>3
  <2>5. factor'[u] \in [phase : {"off", "pending", "on"}, secret : Nat, last : Int]
    BY <2>1, <2>3
  <2>6. factor' = [v \in Accounts |-> factor'[v]]
    BY <1>1, <1>2
  <2> QED BY <1>1, <2>2, <2>4, <2>5, <2>6
<1>7. \A v \in Accounts : factor'[v].secret <= sheet[v] /\ (factor'[v].phase # "off" => factor'[v].secret >= 1)
  BY <1>1, <1>3, <1>6 DEF TakenIsBehind
<1>8. ASSUME NEW a \in accepted', a.code[1] = "step"
      PROVE  /\ a.code[2] \in 1 .. sheet[a.user]
             /\ a.code[2] = factor'[a.user].secret => /\ factor'[a.user].phase = "on"
                                                      /\ a.code[3] <= factor'[a.user].last
  <2>1. CASE a \in accepted
    <3>1. /\ a.code[2] \in 1 .. sheet[a.user] /\ a.user \in Accounts
          /\ a.code[2] = factor[a.user].secret => factor[a.user].phase = "on" /\ a.code[3] <= factor[a.user].last
      BY <1>1, <1>8, <2>1 DEF TakenIsBehind
    <3> QED BY <1>2, <1>6, <3>1
  <2>2. CASE a.user = u /\ a.code = code
    BY <1>3, <1>6, <2>2
  <2> QED BY <1>5, <2>1, <2>2
<1>9. \A a \in accepted' : a.code[1] = "sheet" => a \in accepted
  BY <1>5
<1>10. TakenIsBehind'
  BY <1>1, <1>2, <1>7, <1>8, <1>9 DEF TakenIsBehind
<1> QED BY <1>1, <1>2, <1>5, <1>6, <1>10 DEF FactorsNext

\* The code that turns a factor off is of a secret no account has any more.
LEMMA DisableStep ==
  ASSUME SignInInv, NEW u \in Accounts, NEW code \in Codes, DisableTwoFactor(u, code)
  PROVE  FactorsNext
<1>1. /\ factor \in [Accounts -> [phase : {"off", "pending", "on"}, secret : Nat, last : Int]]
      /\ codes \in [Accounts -> SUBSET (1 .. RecoveryCodes)] /\ sheet \in [Accounts -> Nat]
      /\ TakenIsBehind
      /\ \A a \in accepted : a.user \in Accounts /\ a.code \in Codes
                             /\ a.code[2] \in Nat /\ a.code[3] \in Nat
  BY FactorsNow
<1>2. /\ Accepts(u, code) /\ Take(u, code) /\ factor' = [factor EXCEPT ![u] = Off]
      /\ codes' = [codes EXCEPT ![u] = {}] /\ sheet' = sheet
  BY DEF DisableTwoFactor
<1>3. /\ CodesTakenOnce'
      /\ \A a \in accepted' : a.user \in Accounts /\ a.code \in Codes
      /\ \A a \in accepted' : a \in accepted \/ (a.user = u /\ a.code = code)
  BY <1>2, AcceptedIsNew, TakeStands
<1>4. /\ factor'[u] = [phase |-> "off", secret |-> 0, last |-> -1] /\ codes'[u] = {}
      /\ \A v \in Accounts \ {u} : factor'[v] = factor[v] /\ codes'[v] = codes[v]
      /\ codes' \in [Accounts -> SUBSET (1 .. RecoveryCodes)]
      /\ factor' \in [Accounts -> [phase : {"off", "pending", "on"}, secret : Nat, last : Int]]
  BY <1>1, <1>2 DEF Off
<1>5. /\ code[1] = "step" => code[2] \in 1 .. sheet[u]
      /\ code[1] = "sheet" => code[2] = sheet[u]
  <2>1. factor[u].secret \in Nat /\ factor[u].secret <= sheet[u]
        /\ (factor[u].phase # "off" => factor[u].secret >= 1) /\ sheet[u] \in Nat
    BY <1>1 DEF TakenIsBehind
  <2> QED BY <1>2, <2>1 DEF Accepts
<1>6. \A v \in Accounts : factor'[v].secret <= sheet[v] /\ (factor'[v].phase # "off" => factor'[v].secret >= 1)
  BY <1>1, <1>4 DEF TakenIsBehind
<1>7. ASSUME NEW a \in accepted', a.code[1] = "step"
      PROVE  /\ a.code[2] \in 1 .. sheet[a.user]
             /\ a.code[2] = factor'[a.user].secret => /\ factor'[a.user].phase = "on"
                                                      /\ a.code[3] <= factor'[a.user].last
  <2>1. a.code[2] \in 1 .. sheet[a.user] /\ a.user \in Accounts
    BY <1>1, <1>3, <1>5, <1>7 DEF TakenIsBehind
  <2>2. CASE a.user = u
    BY <1>4, <2>1, <2>2
  <2>3. CASE a.user # u
    BY <1>1, <1>3, <1>4, <1>7, <2>1, <2>3 DEF TakenIsBehind
  <2> QED BY <2>2, <2>3
<1>8. ASSUME NEW a \in accepted', a.code[1] = "sheet"
      PROVE  a.code[2] <= sheet[a.user] /\ (a.code[2] = sheet[a.user] => a.code[3] \notin codes'[a.user])
  <2>1. CASE a \in accepted
    BY <1>1, <1>4, <1>8, <2>1 DEF TakenIsBehind
  <2>2. CASE a.user = u /\ a.code = code
    BY <1>1, <1>4, <1>5, <1>8, <2>2
  <2> QED BY <1>3, <2>1, <2>2
<1>9. TakenIsBehind'
  BY <1>2, <1>6, <1>7, <1>8 DEF TakenIsBehind
<1> QED BY <1>1, <1>2, <1>3, <1>4, <1>9 DEF FactorsNext

\* A sheet in place of another: the code for it is taken first, the old sheet with it.
LEMMA RegenerateStep ==
  ASSUME SignInInv, NEW u \in Accounts, NEW code \in Codes, RegenerateCodes(u, code)
  PROVE  FactorsNext
<1>1. /\ factor \in [Accounts -> [phase : {"off", "pending", "on"}, secret : Nat, last : Int]]
      /\ codes \in [Accounts -> SUBSET (1 .. RecoveryCodes)] /\ sheet \in [Accounts -> Nat]
      /\ TakenIsBehind /\ code[3] \in Nat
      /\ \A a \in accepted : a.user \in Accounts /\ a.code \in Codes
                             /\ a.code[2] \in Nat /\ a.code[3] \in Nat
  BY FactorsNow DEF Codes
<1>2. /\ Accepts(u, code) /\ Take(u, code) /\ sheet' = [sheet EXCEPT ![u] = @ + 1]
      /\ factor' = IF code[1] = "step" THEN [factor EXCEPT ![u].last = code[3]] ELSE factor
      /\ codes' = [codes EXCEPT ![u] = 1 .. RecoveryCodes]
  BY DEF RegenerateCodes, NewSheet
<1>3. /\ CodesTakenOnce'
      /\ \A a \in accepted' : a.user \in Accounts /\ a.code \in Codes
      /\ \A a \in accepted' : a \in accepted \/ (a.user = u /\ a.code = code)
  BY <1>2, AcceptedIsNew, TakeStands
<1>4. /\ sheet'[u] = sheet[u] + 1 /\ sheet' \in [Accounts -> Nat]
      /\ \A v \in Accounts \ {u} : sheet'[v] = sheet[v] /\ codes'[v] = codes[v]
      /\ codes' \in [Accounts -> SUBSET (1 .. RecoveryCodes)]
  BY <1>1, <1>2
<1>5. /\ factor'[u].phase = factor[u].phase /\ factor'[u].secret = factor[u].secret
      /\ code[1] = "step" => factor'[u].last = code[3] /\ code[3] > factor[u].last
      /\ code[1] # "step" => factor'[u].last = factor[u].last
      /\ \A v \in Accounts \ {u} : factor'[v] = factor[v]
      /\ factor' \in [Accounts -> [phase : {"off", "pending", "on"}, secret : Nat, last : Int]]
  <2>1. CASE code[1] = "step"
    <3>1. factor' = [factor EXCEPT ![u].last = code[3]] /\ code[3] > factor[u].last
      BY <1>2, <2>1 DEF Accepts, Fresh
    <3> QED BY <1>1, <2>1, <3>1
  <2>2. CASE code[1] # "step"
    BY <1>1, <1>2, <2>2
  <2> QED BY <2>1, <2>2
<1>6. /\ factor[u].secret \in 1 .. sheet[u] /\ factor[u].phase = "on"
      /\ code[1] = "step" => code[2] = factor[u].secret
      /\ code[1] = "sheet" => code[2] = sheet[u]
  <2>1. factor[u].secret \in Nat /\ factor[u].secret <= sheet[u]
        /\ (factor[u].phase # "off" => factor[u].secret >= 1) /\ sheet[u] \in Nat
    BY <1>1 DEF TakenIsBehind
  <2> QED BY <1>2, <2>1 DEF Accepts
<1>7. \A v \in Accounts : factor'[v].secret <= sheet'[v] /\ (factor'[v].phase # "off" => factor'[v].secret >= 1)
  BY <1>1, <1>4, <1>5, <1>6 DEF TakenIsBehind
<1>8. ASSUME NEW a \in accepted', a.code[1] = "step"
      PROVE  /\ a.code[2] \in 1 .. sheet'[a.user]
             /\ a.code[2] = factor'[a.user].secret => /\ factor'[a.user].phase = "on"
                                                      /\ a.code[3] <= factor'[a.user].last
  <2>1. CASE a \in accepted
    <3>1. /\ a.code[2] \in 1 .. sheet[a.user] /\ a.user \in Accounts /\ a.code[3] \in Nat
          /\ a.code[2] = factor[a.user].secret => factor[a.user].phase = "on" /\ a.code[3] <= factor[a.user].last
      BY <1>1, <1>8, <2>1 DEF TakenIsBehind
    <3>2. factor[u].last \in Int /\ sheet[u] \in Nat
      BY <1>1
    <3>3. CASE a.user = u
      BY <1>1, <1>4, <1>5, <1>6, <3>1, <3>2, <3>3
    <3>4. CASE a.user # u
      BY <1>4, <1>5, <3>1, <3>4
    <3> QED BY <3>3, <3>4
  <2>2. CASE a.user = u /\ a.code = code
    BY <1>1, <1>4, <1>5, <1>6, <1>8, <2>2
  <2> QED BY <1>3, <2>1, <2>2
<1>9. ASSUME NEW a \in accepted', a.code[1] = "sheet"
      PROVE  a.code[2] <= sheet'[a.user] /\ (a.code[2] = sheet'[a.user] => a.code[3] \notin codes'[a.user])
  <2>1. CASE a \in accepted
    BY <1>1, <1>4, <1>9, <2>1 DEF TakenIsBehind
  <2>2. CASE a.user = u /\ a.code = code
    BY <1>1, <1>4, <1>6, <1>9, <2>2
  <2> QED BY <1>3, <2>1, <2>2
<1>10. TakenIsBehind'
  BY <1>7, <1>8, <1>9 DEF TakenIsBehind
<1> QED BY <1>3, <1>4, <1>5, <1>10 DEF FactorsNext

\* A reset link changes the password once: each change is of a link that was issued.
LEMMA ResetStep ==
  ASSUME SignInInv, NEW u \in Accounts,
         RequestReset(u) \/ CompleteReset(u) \/ RefuseReset(u) \/ LinkEnds(u)
  PROVE  SignInInv'
<1>1. /\ sessions \subseteq [n : Nat, user : Accounts, pw : Nat, by : Codes \cup {NoCode}]
      /\ challenges \subseteq [n : Nat, user : Accounts, pw : Nat]
      /\ password \in [Accounts -> Nat] /\ issued \in [Accounts -> Nat] /\ signIns \in Nat
      /\ link \in [Accounts -> {"none", "live", "used"}] /\ step \in Nat
      /\ AttemptsApart /\ OneSessionEach /\ PasswordsMoveOn
  BY AttemptsNow
<1>2. /\ FactorsNext /\ step' \in Nat /\ challenges' = challenges /\ signIns' = signIns
      /\ sessions' \subseteq sessions
  BY <1>1, FactorsKept DEF RequestReset, CompleteReset, RefuseReset, LinkEnds, KeptAfterReset
<1>3. /\ password' \in [Accounts -> Nat] /\ issued' \in [Accounts -> Nat]
      /\ link' \in [Accounts -> {"none", "live", "used"}]
      /\ \A v \in Accounts : /\ password'[v] >= password[v]
                             /\ password'[v] <= 1 + issued'[v]
                             /\ link'[v] = "live" => password'[v] <= issued'[v]
  <2>1. CASE RequestReset(u)
    <3>1. password' = password /\ link' = [link EXCEPT ![u] = "live"] /\ issued' = [issued EXCEPT ![u] = @ + 1]
      BY <2>1 DEF RequestReset
    <3> QED BY <1>1, <3>1 DEF PasswordsMoveOn
  <2>2. CASE CompleteReset(u)
    <3>1. /\ password' = [password EXCEPT ![u] = @ + 1] /\ link' = [link EXCEPT ![u] = "none"]
          /\ issued' = issued /\ link[u] = "live"
      BY <2>2 DEF CompleteReset
    <3> QED BY <1>1, <3>1 DEF PasswordsMoveOn
  <2>3. CASE RefuseReset(u) \/ LinkEnds(u)
    <3>1. /\ password' = password /\ issued' = issued
          /\ link' = [link EXCEPT ![u] = "used"] \/ link' = [link EXCEPT ![u] = "none"]
      BY <2>3 DEF RefuseReset, LinkEnds
    <3> QED BY <1>1, <3>1 DEF PasswordsMoveOn
  <2> QED BY <2>1, <2>2, <2>3
<1>4. \A s \in sessions' : password'[s.user] = password[s.user]
  BY <1>1, <1>2 DEF RequestReset, CompleteReset, RefuseReset, LinkEnds, KeptAfterReset
<1>5. AttemptsApart' /\ OneSessionEach'
  BY <1>1, <1>2 DEF AttemptsApart, OneSessionEach
<1>6. PasswordsMoveOn'
  BY <1>1, <1>2, <1>3, <1>4 DEF PasswordsMoveOn
<1>7. AttemptsNext
  BY <1>1, <1>2, <1>3, <1>5, <1>6 DEF AttemptsNext, Attempts
<1> QED BY <1>2, <1>7, BothNext

LEMMA SignInStep == SignInInv /\ [SignInNext]_signInVars => SignInInv'
<1> SUFFICES ASSUME SignInInv, [SignInNext]_signInVars PROVE SignInInv'
  OBVIOUS
<1>1. ASSUME NEW u \in Accounts,
             \/ BeginEnrolment(u)
             \/ \E t \in 0 .. (LastStep + WindowSteps) : ConfirmEnrolment(u, t)
             \/ \E code \in CodesOf(u) : DisableTwoFactor(u, code) \/ RegenerateCodes(u, code)
      PROVE  SignInInv'
  <2>1. FactorsNext
    BY <1>1, EnrolStep, ConfirmStep, DisableStep, RegenerateStep, CodesInCodes
  <2>2. UNCHANGED <<resetVars, challenges, sessions, signIns>> /\ step' = step
    BY <1>1 DEF BeginEnrolment, ConfirmEnrolment, DisableTwoFactor, RegenerateCodes
  <2> QED BY <2>1, <2>2, AttemptsKept, AttemptsNow, BothNext
<1>2. CASE Tick \/ UNCHANGED signInVars
  <2>1. UNCHANGED factorVars /\ UNCHANGED <<resetVars, challenges, sessions, signIns>> /\ step' \in Nat
    BY <1>2, AttemptsNow DEF Tick, signInVars, factorVars, resetVars
  <2> QED BY <2>1, FactorsKept, AttemptsKept, BothNext
<1> QED BY <1>1, <1>2, LoginStep, FinishStep, AttemptsGoStep, ResetStep DEF SignInNext

\* No code is taken twice for anything, one challenge opens one session, and after a
\* reset nobody is signed in on the strength of the old password who had not proved it
\* before and finished with a code (two-factor.mjs, account-verification.mjs, app.mjs).
THEOREM SignInHolds == SignInSpec => []SignInSound
<1>1. SignInInit => SignInInv
  <2> SUFFICES ASSUME SignInInit PROVE SignInInv
    OBVIOUS
  <2>1. SignInType
    BY DEF SignInInit, SignInType, SignInTypeOK, Off
  <2>2. TakenIsBehind /\ CodesTakenOnce /\ Attempts
    BY DEF SignInInit, TakenIsBehind, CodesTakenOnce, Attempts, AttemptsApart, OneSessionEach, Off
  <2>3. PasswordsMoveOn
    BY DEF SignInInit, PasswordsMoveOn
  <2> QED BY <2>1, <2>2, <2>3 DEF SignInInv
<1> QED BY <1>1, SignInStep, SignInFollows, PTL DEF SignInSpec

(***************************************************************************)
(* Sign-in providers and phone numbers: each link is of an account and the *)
(* only one of its provider; what is verified was proved.                  *)
(***************************************************************************)
IdentityTypes ==
  /\ account \in [Addresses -> {"no", "password", "provider"}]
  /\ source \in [Addresses -> {"signup", "local"}]
  /\ phone \in [Addresses -> Numbers \cup {NoPhone}]
  /\ verified \subseteq proved
  /\ \A l \in links : l.user \in Addresses
  /\ \A f \in states : f.provider \in Providers /\ f.link \in Addresses \cup {Nobody}
  /\ \A w \in waiting : w.provider # "phone" =>
       w.subject \in Subjects /\ w.link \in Addresses \cup {Nobody}
  /\ \A w \in waiting : w.provider = "phone" =>
       w.subject \in Numbers \X Uids /\ w.link \in Addresses

IdentitiesInv == IdentityTypes /\ IdentitiesSound

\* A link that is written leaves each account and each subject with one of a provider.
LEMMA LinkStands ==
  ASSUME IdentitiesInv, NEW a \in Addresses, NEW p, NEW s, NEW how, p # "phone",
         links' = WithLink(a, p, s, how), phone' = phone,
         how = "address" => a \in proved', proved \subseteq proved'
  PROVE  /\ OneOwner' /\ links \subseteq links'
         /\ \A l \in links' : l.user \in Addresses /\ (l.how = "address" => l.user \in proved')
         /\ FindIdentity(p, s) = {} => \E l \in links' : l.user = a
<1>1. CASE links' = links /\ ~(FindIdentity(p, s) = {} /\ \A l \in LinksOf(a) : l.provider # p)
  <2>1. OneOwner' /\ \A l \in links' : l.user \in Addresses /\ (l.how = "address" => l.user \in proved')
    BY <1>1 DEF IdentitiesInv, IdentityTypes, IdentitiesSound, OneOwner, JoinsAreProved
  <2>2. FindIdentity(p, s) = {} => \E l \in links' : l.user = a
    BY <1>1 DEF LinksOf
  <2> QED BY <1>1, <2>1, <2>2
<1>2. CASE /\ links' = links \cup {Link(a, p, s, how)} /\ FindIdentity(p, s) = {}
           /\ \A l \in LinksOf(a) : l.provider # p
  <2> DEFINE new == Link(a, p, s, how)
  <2>1. new.user = a /\ new.provider = p /\ new.subject = s /\ new.how = how
    BY DEF Link
  <2> HIDE DEF new
  <2>2. links' = links \cup {new}
    BY <1>2 DEF new
  <2>3. \A l \in links : l.provider = p => l.subject # s /\ l.user # a
    BY <1>2 DEF FindIdentity, LinksOf
  <2>4. OneOwner'
    BY <2>1, <2>2, <2>3 DEF IdentitiesInv, IdentitiesSound, OneOwner
  <2>5. \A l \in links' : l.user \in Addresses /\ (l.how = "address" => l.user \in proved')
    BY <2>1, <2>2 DEF IdentitiesInv, IdentityTypes, IdentitiesSound, JoinsAreProved
  <2> QED BY <2>1, <2>2, <2>4, <2>5
<1> QED BY <1>1, <1>2 DEF WithLink

\* The steps that write neither an account, nor a link, nor a number, nor an address.
LEMMA FlowsStep ==
  ASSUME IdentitiesInv, UNCHANGED <<account, source, links, phone>>,
         proved \subseteq proved', verified' \subseteq proved', cut \subseteq cut',
         \A a \in verified' : a \in verified \/ a \in proved',
         \A f \in states' : f.provider \in Providers /\ f.link \in Addresses \cup {Nobody},
         \A w \in waiting' : w.provider # "phone" =>
           w.subject \in Subjects /\ w.link \in Addresses \cup {Nobody},
         \A w \in waiting' : w.provider = "phone" =>
           w.subject \in Numbers \X Uids /\ w.link \in Addresses
  PROVE  IdentitiesInv'
<1>1. IdentityTypes'
  BY DEF IdentitiesInv, IdentityTypes
<1>2. OneOwner' /\ KeepsAMethod'
  BY DEF IdentitiesInv, IdentitiesSound, OneOwner, KeepsAMethod, Known, LinksOf
<1>3. JoinsAreProved'
  BY DEF IdentitiesInv, IdentitiesSound, JoinsAreProved, MayCreate, Known
<1> QED BY <1>1, <1>2, <1>3 DEF IdentitiesInv, IdentitiesSound

LEMMA FlowsSteps ==
  ASSUME IdentitiesInv,
         \/ \E a \in Addresses : SendVerification(a) \/ VerifyEmail(a) \/ TokenEnds(a)
         \/ \E a \in Addresses, n \in Numbers, s \in Uids : AskPhone(a, n, s)
         \/ \E u \in Addresses \cup {Nobody}, p \in Providers : StartOAuth(u, p)
         \/ \E f \in states : StateEnds(f) \/ (\E s \in Subjects, sure \in BOOLEAN : ClaimState(f, s, sure))
         \/ \E w \in waiting : w.provider # "phone" /\ SettleKnown(w)
         \/ UNCHANGED identityVars
  PROVE  IdentitiesInv'
<1>1. IdentityTypes
  BY DEF IdentitiesInv
<1>2. CASE \E a \in Addresses : SendVerification(a) \/ VerifyEmail(a) \/ TokenEnds(a)
  BY <1>1, <1>2, FlowsStep DEF IdentityTypes, SendVerification, VerifyEmail, TokenEnds
<1>3. CASE \E a \in Addresses, n \in Numbers, s \in Uids : AskPhone(a, n, s)
  BY <1>1, <1>3, FlowsStep DEF IdentityTypes, AskPhone
<1>4. CASE \E u \in Addresses \cup {Nobody}, p \in Providers : StartOAuth(u, p)
  BY <1>1, <1>4, FlowsStep DEF IdentityTypes, StartOAuth
<1>5. CASE \E f \in states : StateEnds(f) \/ (\E s \in Subjects, sure \in BOOLEAN : ClaimState(f, s, sure))
  BY <1>1, <1>5, FlowsStep, IdentitiesAssumption DEF IdentityTypes, StateEnds, ClaimState
<1>6. CASE \E w \in waiting : w.provider # "phone" /\ SettleKnown(w)
  BY <1>1, <1>6, FlowsStep DEF IdentityTypes, SettleKnown
<1>7. CASE UNCHANGED identityVars
  BY <1>1, <1>7, FlowsStep DEF IdentityTypes, identityVars
<1> QED BY <1>2, <1>3, <1>4, <1>5, <1>6, <1>7

LEMMA SignUpStep ==
  ASSUME IdentitiesInv, NEW a \in Addresses, SignUp(a)
  PROVE  IdentitiesInv'
<1>1. /\ account' = [account EXCEPT ![a] = "password"] /\ source' = [source EXCEPT ![a] = "signup"]
      /\ UNCHANGED <<verified, links, phone, states, waiting, proved, cut>>
  BY DEF SignUp
<1>2. IdentityTypes'
  BY <1>1 DEF IdentitiesInv, IdentityTypes
<1>3. OneOwner' /\ KeepsAMethod'
  BY <1>1 DEF IdentitiesInv, IdentityTypes, IdentitiesSound, OneOwner, KeepsAMethod, Known, LinksOf
<1>4. JoinsAreProved'
  BY <1>1 DEF IdentitiesInv, IdentityTypes, IdentitiesSound, JoinsAreProved, MayCreate, Known
<1> QED BY <1>2, <1>3, <1>4 DEF IdentitiesInv, IdentitiesSound

LEMMA SettleStep ==
  ASSUME IdentitiesInv, NEW w \in waiting, w.provider # "phone",
         SettleLink(w) \/ SettleByAddress(w) \/ SettleNew(w)
  PROVE  IdentitiesInv'
<1>1. IdentityTypes /\ w.subject \in Subjects /\ w.link \in Addresses \cup {Nobody}
      /\ SubjectMail[w.subject] \in Addresses
  BY IdentitiesAssumption DEF IdentitiesInv, IdentityTypes
<1>2. CASE SettleLink(w)
  <2>1. /\ w.link \in Addresses /\ links' = WithLink(w.link, w.provider, w.subject, "asked")
        /\ waiting' = waiting \ {w}
        /\ UNCHANGED <<account, source, verified, phone, token, states, proved, cut>>
    BY <1>1, <1>2 DEF SettleLink
  <2>2. /\ OneOwner' /\ links \subseteq links'
        /\ \A l \in links' : l.user \in Addresses /\ (l.how = "address" => l.user \in proved')
    BY <2>1, LinkStands
  <2>3. IdentityTypes'
    BY <1>1, <2>1, <2>2 DEF IdentityTypes
  <2>4. JoinsAreProved' /\ KeepsAMethod'
    BY <2>1, <2>2 DEF IdentitiesInv, IdentitiesSound, JoinsAreProved, KeepsAMethod, MayCreate, Known, LinksOf
  <2> QED BY <2>2, <2>3, <2>4 DEF IdentitiesInv, IdentitiesSound
<1>3. CASE SettleByAddress(w)
  <2> DEFINE a == SubjectMail[w.subject]
  <2>1. /\ links' = IF BothProved(a, w) THEN WithLink(a, w.provider, w.subject, "address") ELSE links
        /\ waiting' = waiting \ {w} /\ a \in Addresses
        /\ UNCHANGED <<account, source, verified, phone, token, states, proved, cut>>
    BY <1>1, <1>3 DEF SettleByAddress
  <2> HIDE DEF a
  <2>2. /\ OneOwner' /\ links \subseteq links'
        /\ \A l \in links' : l.user \in Addresses /\ (l.how = "address" => l.user \in proved')
    <3>1. CASE BothProved(a, w)
      <4>1. a \in proved' /\ proved \subseteq proved'
        BY <1>1, <2>1, <3>1 DEF BothProved, IdentityTypes
      <4> QED BY <2>1, <3>1, <4>1, LinkStands
    <3>2. CASE ~BothProved(a, w)
      BY <1>1, <2>1, <3>2 DEF IdentityTypes, IdentitiesInv, IdentitiesSound, OneOwner, JoinsAreProved
    <3> QED BY <3>1, <3>2
  <2>3. IdentityTypes'
    BY <1>1, <2>1, <2>2 DEF IdentityTypes
  <2>4. JoinsAreProved' /\ KeepsAMethod'
    BY <2>1, <2>2 DEF IdentitiesInv, IdentitiesSound, JoinsAreProved, KeepsAMethod, MayCreate, Known, LinksOf
  <2> QED BY <2>2, <2>3, <2>4 DEF IdentitiesInv, IdentitiesSound
<1>4. CASE SettleNew(w)
  <2> DEFINE a == SubjectMail[w.subject]
  <2>1. /\ FindIdentity(w.provider, w.subject) = {} /\ a \notin Known /\ a \in Addresses
        /\ waiting' = waiting \ {w} /\ account' = [account EXCEPT ![a] = "provider"]
        /\ verified' = IF w.vouched THEN verified \cup {a} ELSE verified
        /\ proved' = IF w.vouched THEN proved \cup {a} ELSE proved
        /\ UNCHANGED <<source, phone, token, states>>
        /\ \/ links' = WithLink(a, w.provider, w.subject, "new") /\ cut' = cut
           \/ cut' = cut \cup {a} /\ links' = links
    BY <1>1, <1>4 DEF SettleNew
  <2> HIDE DEF a
  <2>2. verified' \subseteq proved' /\ proved \subseteq proved'
    BY <1>1, <2>1 DEF IdentityTypes
  <2>3. /\ OneOwner' /\ links \subseteq links'
        /\ \A l \in links' : l.user \in Addresses /\ (l.how = "address" => l.user \in proved')
        /\ a \in cut' \/ \E l \in links' : l.user = a
    <3>1. CASE links' = WithLink(a, w.provider, w.subject, "new")
      BY <2>1, <2>2, <3>1, LinkStands
    <3>2. CASE cut' = cut \cup {a} /\ links' = links
      BY <1>1, <2>1, <2>2, <3>2 DEF IdentityTypes, IdentitiesInv, IdentitiesSound, OneOwner, JoinsAreProved
    <3> QED BY <2>1, <3>1, <3>2
  <2>4. IdentityTypes'
    BY <1>1, <2>1, <2>2, <2>3 DEF IdentityTypes
  <2>5. \A b \in Addresses : b # a => account'[b] = account[b]
    BY <1>1, <2>1 DEF IdentityTypes
  <2>6. KeepsAMethod'
    <3> SUFFICES ASSUME NEW b \in Known', b \notin cut', account'[b] # "password"
                 PROVE  \E l \in links' : l.user = b
      BY DEF KeepsAMethod, LinksOf
    <3>1. CASE b = a
      BY <2>3, <3>1
    <3>2. CASE b # a
      BY <2>1, <2>3, <2>5, <3>2 DEF IdentitiesInv, IdentitiesSound, KeepsAMethod, Known, LinksOf
    <3> QED BY <3>1, <3>2
  <2>7. JoinsAreProved'
    <3>1. \A b \in Addresses : MayCreate(b)' /\ source'[b] = "signup" => b \in verified'
      BY DEF MayCreate
    <3> QED BY <2>2, <2>3, <3>1 DEF JoinsAreProved
  <2> QED BY <2>3, <2>4, <2>6, <2>7 DEF IdentitiesInv, IdentitiesSound
<1> QED BY <1>2, <1>3, <1>4

\* Two links of an account are of two providers, so one of them outlives an unlinking.
LEMMA AnotherLink ==
  ASSUME IdentitiesInv, NEW a, NEW p, Cardinality(LinksOf(a)) > 1
  PROVE  \E l \in LinksOf(a) : l.provider # p
<1> SUFFICES ASSUME \A l \in LinksOf(a) : l.provider = p PROVE FALSE
  OBVIOUS
<1>1. \A l, m \in LinksOf(a) : l = m
  BY DEF LinksOf, IdentitiesInv, IdentitiesSound, OneOwner
<1>2. CASE LinksOf(a) = {}
  BY <1>2, FS_EmptySet
<1>3. CASE LinksOf(a) # {}
  <2>1. PICK l \in LinksOf(a) : TRUE
    BY <1>3
  <2>2. LinksOf(a) = {l}
    BY <1>1, <2>1
  <2>3. Cardinality({l}) = 1
    BY FS_Singleton
  <2>4. Cardinality(LinksOf(a)) = 1
    BY <2>2, <2>3
  <2> QED BY <2>4
<1> QED BY <1>2, <1>3

LEMMA UnlinkStep ==
  ASSUME IdentitiesInv, NEW a \in Addresses,
         RemovePhone(a) \/ \E p \in Providers \cup {"phone"} : UnlinkIdentity(a, p)
  PROVE  IdentitiesInv'
<1>1. PICK p \in Providers \cup {"phone"} :
        /\ links' = {l \in links : ~(l.user = a /\ l.provider = p)}
        /\ account[a] = "password" \/ \E l \in links : l.user = a /\ l.provider # p
        /\ phone' = phone \/ (phone' = [phone EXCEPT ![a] = NoPhone] /\ p = "phone")
        /\ UNCHANGED <<account, source, verified, token, states, waiting, proved, cut>>
  <2>1. CASE RemovePhone(a)
    <3>1. account[a] = "password" \/ \E l \in links : l.user = a /\ l.provider # "phone"
      BY <2>1, IdentitiesAssumption DEF RemovePhone, ByProvider, LinksOf
    <3> QED BY <2>1, <3>1 DEF RemovePhone
  <2>2. CASE \E p \in Providers \cup {"phone"} : UnlinkIdentity(a, p)
    <3>1. PICK p \in Providers \cup {"phone"} : UnlinkIdentity(a, p)
      BY <2>2
    <3>2. account[a] = "password" \/ \E l \in LinksOf(a) : l.provider # p
      BY <3>1, AnotherLink DEF UnlinkIdentity, NotTheLast
    <3> QED BY <3>1, <3>2 DEF UnlinkIdentity, LinksOf
  <2> QED BY <2>1, <2>2
<1>2. phone' \in [Addresses -> Numbers \cup {NoPhone}] /\ links' \subseteq links
      /\ \A b \in Addresses : phone'[b] = phone[b] \/ (b = a /\ phone'[b] = NoPhone /\ p = "phone")
  BY <1>1 DEF IdentitiesInv, IdentityTypes
<1>3. IdentityTypes'
  BY <1>1, <1>2 DEF IdentitiesInv, IdentityTypes
<1>4. OneOwner'
  BY <1>1, <1>2 DEF IdentitiesInv, IdentityTypes, IdentitiesSound, OneOwner
<1>5. JoinsAreProved'
  BY <1>1, <1>2 DEF IdentitiesInv, IdentitiesSound, JoinsAreProved, MayCreate, Known
<1>6. KeepsAMethod'
  BY <1>1, <1>2 DEF IdentitiesInv, IdentitiesSound, KeepsAMethod, Known, LinksOf
<1> QED BY <1>3, <1>4, <1>5, <1>6 DEF IdentitiesInv, IdentitiesSound

\* A number that somebody has goes to nobody else, and the link follows the number.
LEMMA SettlePhoneStep ==
  ASSUME IdentitiesInv, NEW w \in waiting, w.provider = "phone", SettlePhone(w)
  PROVE  IdentitiesInv'
<1> DEFINE a == w.link
           n == w.subject[1]
           new == Link(a, "phone", w.subject, "asked")
           allowed == NumberFree(a, n) /\ \A l \in FindIdentity("phone", w.subject) : l.user = a
<1>1. IdentityTypes /\ a \in Addresses /\ n \in Numbers
  BY DEF IdentitiesInv, IdentityTypes
<1>2. /\ waiting' = waiting \ {w}
      /\ links' = IF allowed THEN {l \in links : ~(l.user = a /\ l.provider = "phone")} \cup {new} ELSE links
      /\ phone' = IF allowed THEN [phone EXCEPT ![a] = n] ELSE phone
      /\ UNCHANGED <<account, source, verified, token, states, proved, cut>>
  BY DEF SettlePhone
<1>3. new.user = a /\ new.provider = "phone" /\ new.subject = w.subject /\ new.how = "asked"
  BY DEF Link
<1>4. allowed => /\ \A b \in Addresses \ {a} : phone[b] # n
                 /\ \A l \in links : l.provider = "phone" /\ l.subject = w.subject => l.user = a
  BY DEF NumberFree, FindIdentity
<1> HIDE DEF allowed, new
<1>5. CASE ~allowed
  <2>1. IdentityTypes'
    BY <1>1, <1>2, <1>5 DEF IdentityTypes
  <2>2. IdentitiesSound'
    BY <1>2, <1>5 DEF IdentitiesInv, IdentitiesSound, OneOwner, JoinsAreProved, KeepsAMethod, MayCreate, Known, LinksOf
  <2> QED BY <2>1, <2>2 DEF IdentitiesInv
<1>6. CASE allowed
  <2> DEFINE kept == {l \in links : ~(l.user = a /\ l.provider = "phone")}
  <2>1. /\ links' = kept \cup {new} /\ phone' = [phone EXCEPT ![a] = n]
        /\ \A l \in links : l.user \in Addresses
        /\ phone \in [Addresses -> Numbers \cup {NoPhone}]
    BY <1>1, <1>2, <1>6 DEF IdentityTypes
  <2>2. /\ phone'[a] = n /\ \A b \in Addresses \ {a} : phone'[b] = phone[b]
        /\ phone' \in [Addresses -> Numbers \cup {NoPhone}]
    BY <1>1, <2>1
  <2>3. \A l \in kept : l \in links /\ (l.provider = "phone" => l.user # a /\ l.subject # w.subject)
    BY <1>4, <1>6
  <2> HIDE DEF a, n
  <2>4. OneOwner'
    <3>1. \A l, m \in links' : l.provider = m.provider /\ (l.subject = m.subject \/ l.user = m.user) => l = m
      <4> HIDE DEF kept
      <4> QED BY <1>3, <2>1, <2>3 DEF IdentitiesInv, IdentitiesSound, OneOwner
    <3>2. \A b, c \in Addresses : phone'[b] = phone'[c] /\ phone'[b] # NoPhone => b = c
      BY <1>1, <1>4, <1>6, <2>2 DEF IdentitiesInv, IdentitiesSound, OneOwner
    <3>3. \A l \in links' : l.provider = "phone" => phone'[l.user] = l.subject[1]
      <4>1. new.user = a /\ new.subject[1] = n
        BY <1>3 DEF a, n
      <4>2. \A l \in kept : l.provider = "phone" => phone[l.user] = l.subject[1] /\ l.user \in Addresses \ {a}
        BY <2>1, <2>3 DEF IdentitiesInv, IdentitiesSound, OneOwner
      <4> HIDE DEF kept
      <4> QED BY <2>1, <2>2, <4>1, <4>2
    <3> QED BY <3>1, <3>2, <3>3 DEF OneOwner
  <2>5. IdentityTypes'
    <3>1. new.user \in Addresses
      BY <1>1, <1>3
    <3> QED BY <1>1, <1>2, <2>1, <2>2, <3>1 DEF IdentityTypes
  <2>6. JoinsAreProved'
    BY <1>2, <1>3, <2>1 DEF IdentitiesInv, IdentitiesSound, JoinsAreProved, MayCreate, Known
  <2>7. KeepsAMethod'
    <3> SUFFICES ASSUME NEW b \in Known \ cut, account[b] # "password" PROVE \E l \in links' : l.user = b
      BY <1>2 DEF KeepsAMethod, Known, LinksOf
    <3>1. PICK l \in links : l.user = b
      BY DEF IdentitiesInv, IdentitiesSound, KeepsAMethod, LinksOf
    <3>2. CASE b = a
      BY <1>3, <2>1, <3>2 DEF a
    <3>3. CASE b # a
      BY <2>1, <3>1, <3>3
    <3> QED BY <3>2, <3>3
  <2> QED BY <2>4, <2>5, <2>6, <2>7 DEF IdentitiesInv, IdentitiesSound
<1> QED BY <1>5, <1>6

\* A provider's account and a number belong to one account here, an account is joined by
\* its address only when that was proved, and each account keeps a password or a link,
\* save one cut short while it was made (oauth-signin.mjs, user-identities.mjs,
\* phone-verification.mjs).
THEOREM IdentitiesHold == IdentitiesSpec => []IdentitiesSound
<1>1. IdentitiesInit => IdentitiesInv
  BY DEF IdentitiesInit, IdentitiesInv, IdentityTypes, IdentitiesSound, OneOwner, JoinsAreProved,
         KeepsAMethod, MayCreate, Known, LinksOf, NoPhone
<1>2. IdentitiesInv /\ [IdentitiesNext]_identityVars => IdentitiesInv'
  BY FlowsSteps, SignUpStep, SettleStep, UnlinkStep, SettlePhoneStep DEF IdentitiesNext
<1>3. IdentitiesInv => IdentitiesSound
  BY DEF IdentitiesInv
<1> QED BY <1>1, <1>2, <1>3, PTL DEF IdentitiesSpec

(***************************************************************************)
(* Sessions at Kuklabs Account: what a request holds was given to its      *)
(* device, a row is no younger than the last answer for its session, and   *)
(* what was revoked stays gone.                                            *)
(***************************************************************************)
Questions == {"idle", "me", "again", "product", "refresh", "rotated", "sessions"}

AuthKitTypes ==
  /\ window \in Nat /\ clock \in Nat
  /\ newest \in [Devices -> Nat] /\ vouched \in [Devices -> Int] /\ revoked \in [Devices -> Int]
  /\ bridge \in [Devices -> [there : BOOLEAN, tokens : Nat, validated : Nat]]
  /\ request \in [Requests -> [at : Questions, device : Devices \cup {"none"},
                               tokens : Nat, begun : Int]]
  /\ served \in [at : Int, begun : Int, vouched : Int, revoked : Int]
  /\ \A e \in lost : e[1] \in Devices

\* The devices an access token of which has run out.
RunOut == {d \in Devices : \E n \in 1 .. newest[d] : <<d, n>> \in ranOut}

RequestsHold ==
  \A r \in Requests : request[r].at # "idle" =>
    /\ request[r].device \in Devices /\ request[r].tokens \in 1 .. newest[request[r].device]
    /\ request[r].at \in {"refresh", "rotated"} => request[r].device \in RunOut

BridgesStand ==
  \A d \in Devices : bridge[d].there =>
    /\ bridge[d].tokens \in 1 .. newest[d] /\ bridge[d].validated <= vouched[d]
    /\ d \in live \/ revoked[d] # -1

RevokedAreGone == \A d \in Devices : revoked[d] # -1 => d \notin live

LossesStand ==
  \A e \in lost :
    \/ e[2] = "expired"
    \/ e[2] = "revoked" /\ revoked[e[1]] # -1
    \/ e[2] = "spent" /\ newest[e[1]] > 1
    \/ e[2] \in {"ran out", "trouble", "limited"} /\ e[1] \in RunOut

AuthKitInv ==
  AuthKitTypes /\ RequestsHold /\ BridgesStand /\ RevokedAreGone /\ LossesStand /\ FailsClosed

LEMMA AuthKitFollows == AuthKitInv => AuthKitSound
BY DEF AuthKitInv, AuthKitTypes, RevokedAreGone, LossesStand, AuthKitSound, KeepsTheHealthy, RunOut

LEMMA WaitStep ==
  ASSUME AuthKitTypes, NEW r \in Requests, NEW d \in Devices, NEW tokens \in Nat,
         NEW what \in Questions, Ask(r, d, tokens, what)
  PROVE  /\ request' \in [Requests -> [at : Questions, device : Devices \cup {"none"},
                                       tokens : Nat, begun : Int]]
         /\ request'[r].device = d /\ request'[r].tokens = tokens /\ request'[r].at = what
         /\ \A q \in Requests \ {r} : request'[q] = request[q]
<1> DEFINE begun == IF request[r].begun = -1 THEN clock ELSE request[r].begun
           new == [at |-> what, device |-> d, tokens |-> tokens, begun |-> begun]
<1>1. new \in [at : Questions, device : Devices \cup {"none"}, tokens : Nat, begun : Int]
  BY DEF AuthKitTypes
<1>2. request' = [request EXCEPT ![r] = new]
  BY DEF Ask
<1>3. new.device = d /\ new.tokens = tokens /\ new.at = what
  OBVIOUS
<1> HIDE DEF new
<1> QED BY <1>1, <1>2, <1>3 DEF AuthKitTypes

LEMMA DoneStep ==
  ASSUME AuthKitTypes, NEW r \in Requests, Done(r)
  PROVE  /\ request' \in [Requests -> [at : Questions, device : Devices \cup {"none"},
                                       tokens : Nat, begun : Int]]
         /\ request'[r].at = "idle"
         /\ \A q \in Requests \ {r} : request'[q] = request[q]
<1>1. Idle \in [at : Questions, device : Devices \cup {"none"}, tokens : Nat, begun : Int]
      /\ Idle.at = "idle"
  BY DEF Idle, Questions
<1>2. request' = [request EXCEPT ![r] = Idle]
  BY DEF Done
<1> HIDE DEF Idle
<1> QED BY <1>1, <1>2 DEF AuthKitTypes

LEMMA PairIs ==
  ASSUME NEW e, NEW a, NEW b, e = <<a, b>>
  PROVE  e[1] = a /\ e[2] = b
<1>1. <<a, b>>[1] = a /\ <<a, b>>[2] = b
  OBVIOUS
<1> QED BY <1>1, Zenon

\* A row that is taken away, and why.
LEMMA RevokeStep ==
  ASSUME AuthKitInv, NEW d \in Devices, NEW why, Revoke(d, why),
         UNCHANGED <<live, newest, ranOut, vouched, revoked>>,
         bridge[d].there =>
           \/ why = "expired"
           \/ why = "revoked" /\ revoked[d] # -1
           \/ why = "spent" /\ newest[d] > 1
           \/ why \in {"ran out", "trouble", "limited"} /\ d \in RunOut
  PROVE  /\ bridge' \in [Devices -> [there : BOOLEAN, tokens : Nat, validated : Nat]]
         /\ BridgesStand' /\ LossesStand' /\ \A e \in lost' : e[1] \in Devices
<1>1. /\ bridge \in [Devices -> [there : BOOLEAN, tokens : Nat, validated : Nat]]
      /\ BridgesStand /\ LossesStand /\ \A e \in lost : e[1] \in Devices
  BY DEF AuthKitInv, AuthKitTypes
<1>2. /\ bridge' = [bridge EXCEPT ![d] = NoBridge]
      /\ lost' = IF bridge[d].there THEN lost \cup {<<d, why>>} ELSE lost
  BY DEF Revoke
<1>3. NoBridge \in [there : BOOLEAN, tokens : Nat, validated : Nat] /\ ~NoBridge.there
  BY DEF NoBridge
<1>4. /\ bridge' \in [Devices -> [there : BOOLEAN, tokens : Nat, validated : Nat]]
      /\ ~bridge'[d].there /\ \A c \in Devices \ {d} : bridge'[c] = bridge[c]
  <2> HIDE DEF NoBridge
  <2> QED BY <1>1, <1>2, <1>3
<1>5. BridgesStand'
  BY <1>1, <1>4 DEF BridgesStand
<1>6. LossesStand' /\ \A e \in lost' : e[1] \in Devices
  <2>1. ASSUME NEW e \in lost' PROVE e \in lost \/ (e[1] = d /\ e[2] = why /\ bridge[d].there)
    <3>1. CASE bridge[d].there
      <4>1. e \in lost \/ e = <<d, why>>
        BY <1>2, <3>1
      <4>2. e = <<d, why>> => e[1] = d /\ e[2] = why
        BY PairIs, Zenon
      <4> QED BY <3>1, <4>1, <4>2, Zenon
    <3>2. CASE ~bridge[d].there
      BY <1>2, <3>2
    <3> QED BY <3>1, <3>2
  <2>2. \A e \in lost' : e[1] \in Devices
    BY <1>1, <2>1
  <2>3. ASSUME NEW e \in lost'
        PROVE  \/ e[2] = "expired"
               \/ e[2] = "revoked" /\ revoked[e[1]] # -1
               \/ e[2] = "spent" /\ newest[e[1]] > 1
               \/ e[2] \in {"ran out", "trouble", "limited"} /\ e[1] \in RunOut
    BY <1>1, <2>1 DEF LossesStand
  <2>4. RunOut' = RunOut
    BY DEF RunOut
  <2> QED BY <2>2, <2>3, <2>4 DEF LossesStand
<1> QED BY <1>4, <1>5, <1>6

\* A row that AuthKit has just vouched for.
LEMMA ValidatedStep ==
  ASSUME AuthKitInv, NEW d \in Devices, NEW tokens, Validated(d, tokens),
         bridge[d].there => tokens \in 1 .. newest[d],
         vouched' = [vouched EXCEPT ![d] = clock], UNCHANGED <<live, newest, revoked>>
  PROVE  /\ bridge' \in [Devices -> [there : BOOLEAN, tokens : Nat, validated : Nat]]
         /\ vouched' \in [Devices -> Int] /\ BridgesStand'
<1>1. /\ bridge \in [Devices -> [there : BOOLEAN, tokens : Nat, validated : Nat]]
      /\ vouched \in [Devices -> Int] /\ newest \in [Devices -> Nat] /\ clock \in Nat /\ BridgesStand
  BY DEF AuthKitInv, AuthKitTypes
<1>2. vouched'[d] = clock /\ (\A c \in Devices \ {d} : vouched'[c] = vouched[c]) /\ vouched' \in [Devices -> Int]
  BY <1>1
<1>3. CASE ~bridge[d].there
  BY <1>1, <1>2, <1>3 DEF Validated, BridgesStand
<1>4. CASE bridge[d].there
  <2> DEFINE new == [there |-> TRUE, tokens |-> tokens, validated |-> clock]
  <2>1. new \in [there : BOOLEAN, tokens : Nat, validated : Nat]
        /\ new.tokens = tokens /\ new.validated = clock
    BY <1>1, <1>4
  <2>2. bridge' = [bridge EXCEPT ![d] = new]
    BY <1>4 DEF Validated
  <2> HIDE DEF new
  <2>3. /\ bridge' \in [Devices -> [there : BOOLEAN, tokens : Nat, validated : Nat]]
        /\ bridge'[d] = new /\ \A c \in Devices \ {d} : bridge'[c] = bridge[c]
    BY <1>1, <2>1, <2>2
  <2> QED BY <1>1, <1>2, <1>4, <2>1, <2>3 DEF BridgesStand
<1> QED BY <1>3, <1>4

\* What has run out stays so, and tokens are only added.
LEMMA RunOutLasts ==
  ASSUME \A c \in Devices : newest[c] \in Nat /\ newest'[c] \in Nat /\ newest'[c] >= newest[c],
         ranOut \subseteq ranOut'
  PROVE  RunOut \subseteq RunOut'
<1> SUFFICES ASSUME NEW d \in Devices, NEW n \in 1 .. newest[d], <<d, n>> \in ranOut
             PROVE  n \in 1 .. newest'[d] /\ <<d, n>> \in ranOut'
  BY DEF RunOut
<1> QED OBVIOUS

\* A loss stays one, and so does a revocation.
LEMMA LossesLast ==
  ASSUME LossesStand, lost' = lost, ranOut \subseteq ranOut', \A e \in lost : e[1] \in Devices,
         \A c \in Devices : newest[c] \in Nat /\ newest'[c] \in Nat /\ newest'[c] >= newest[c],
         \A c \in Devices : revoked[c] # -1 => revoked'[c] # -1
  PROVE  LossesStand'
<1>1. RunOut \subseteq RunOut'
  BY RunOutLasts
<1>2. \A c \in Devices : newest[c] > 1 => newest'[c] > 1
  OBVIOUS
<1> QED BY <1>1, <1>2 DEF LossesStand

\* What is served on an answer of this moment, or on trust within the window.
LEMMA ServeStep ==
  ASSUME AuthKitInv, NEW d \in Devices, NEW begun \in Int, NEW since \in Int,
         Serve(d, begun, since), window' = window,
         since = clock \/ (window > 0 /\ clock - since < window)
  PROVE  FailsClosed' /\ served' \in [at : Int, begun : Int, vouched : Int, revoked : Int]
<1>1. clock \in Nat /\ window \in Nat /\ revoked[d] \in Int
  BY DEF AuthKitInv, AuthKitTypes
<1>2. /\ served'.at = clock /\ served'.vouched = since
      /\ served' \in [at : Int, begun : Int, vouched : Int, revoked : Int]
  BY <1>1 DEF Serve
<1> QED BY <1>1, <1>2 DEF FailsClosed

LEMMA SignInWithStep ==
  ASSUME AuthKitInv, NEW d \in Devices, SignInWithAuthKit(d)
  PROVE  AuthKitInv'
<1>1. AuthKitTypes /\ RequestsHold /\ BridgesStand /\ RevokedAreGone /\ LossesStand /\ FailsClosed
  BY DEF AuthKitInv
<1>2. /\ live' = live \cup {d} /\ newest' = [newest EXCEPT ![d] = @ + 1] /\ revoked[d] = -1
      /\ bridge' = [bridge EXCEPT ![d] = [there |-> TRUE, tokens |-> newest'[d], validated |-> clock]]
      /\ vouched' = [vouched EXCEPT ![d] = clock]
      /\ UNCHANGED <<window, clock, ranOut, request, revoked, served, lost>>
  BY DEF SignInWithAuthKit
<1>3. /\ newest' \in [Devices -> Nat] /\ newest'[d] = newest[d] + 1
      /\ \A c \in Devices : newest'[c] >= newest[c] /\ newest[c] \in Nat
      /\ vouched' \in [Devices -> Int] /\ vouched'[d] = clock
      /\ \A c \in Devices \ {d} : vouched'[c] = vouched[c] /\ newest'[c] = newest[c]
  BY <1>1, <1>2 DEF AuthKitTypes
<1> DEFINE new == [there |-> TRUE, tokens |-> newest'[d], validated |-> clock]
<1>4. new \in [there : BOOLEAN, tokens : Nat, validated : Nat] /\ new.tokens = newest'[d] /\ new.validated = clock
  BY <1>1, <1>3 DEF AuthKitTypes
<1>5. /\ bridge' \in [Devices -> [there : BOOLEAN, tokens : Nat, validated : Nat]]
      /\ bridge'[d] = new /\ \A c \in Devices \ {d} : bridge'[c] = bridge[c]
  <2>1. bridge' = [bridge EXCEPT ![d] = new]
    BY <1>2
  <2> HIDE DEF new
  <2> QED BY <1>1, <1>4, <2>1 DEF AuthKitTypes
<1>6. AuthKitTypes'
  BY <1>1, <1>2, <1>3, <1>5 DEF AuthKitTypes
<1>7. BridgesStand'
  <2> HIDE DEF new
  <2>1. newest'[d] \in 1 .. newest'[d] /\ clock <= clock /\ clock \in Nat
    BY <1>1, <1>3 DEF AuthKitTypes
  <2> QED BY <1>1, <1>2, <1>3, <1>4, <1>5, <2>1 DEF BridgesStand
<1>8. RevokedAreGone'
  BY <1>1, <1>2 DEF RevokedAreGone
<1>9. RequestsHold'
  <2> SUFFICES ASSUME NEW r \in Requests, request[r].at # "idle"
               PROVE  /\ request[r].device \in Devices
                      /\ request[r].tokens \in 1 .. newest'[request[r].device]
                      /\ request[r].at \in {"refresh", "rotated"} => request[r].device \in RunOut'
    BY <1>2 DEF RequestsHold
  <2>1. request[r].device \in Devices /\ request[r].tokens \in 1 .. newest[request[r].device]
        /\ (request[r].at \in {"refresh", "rotated"} => request[r].device \in RunOut)
    BY <1>1 DEF RequestsHold
  <2>2. \A c \in Devices : newest'[c] \in Nat /\ newest[c] \in Nat /\ newest'[c] >= newest[c]
    BY <1>3
  <2>3. RunOut \subseteq RunOut'
    BY <1>2, <2>2, RunOutLasts
  <2> QED BY <2>1, <2>2, <2>3
<1>10. LossesStand'
  <2>1. \A e \in lost : e[1] \in Devices
    BY <1>1 DEF AuthKitTypes
  <2> QED BY <1>1, <1>2, <1>3, <2>1, LossesLast
<1>11. FailsClosed'
  BY <1>1, <1>2 DEF FailsClosed
<1> QED BY <1>6, <1>7, <1>8, <1>9, <1>10, <1>11 DEF AuthKitInv

\* The steps that leave tokens, rows and losses alone, or nearly so.
LEMMA QuietStep ==
  ASSUME AuthKitInv, UNCHANGED <<window, newest, bridge, vouched, served, lost>>,
         request' \in [Requests -> [at : Questions, device : Devices \cup {"none"},
                                    tokens : Nat, begun : Int]],
         RequestsHold', clock' \in Nat, revoked' \in [Devices -> Int], ranOut \subseteq ranOut',
         \A d \in Devices : /\ bridge[d].there => d \in live' \/ revoked'[d] # -1
                            /\ revoked[d] # -1 => revoked'[d] # -1
                            /\ revoked'[d] # -1 => d \notin live'
  PROVE  AuthKitInv'
<1>1. AuthKitTypes' /\ BridgesStand' /\ RevokedAreGone' /\ FailsClosed'
  BY DEF AuthKitInv, AuthKitTypes, BridgesStand, RevokedAreGone, FailsClosed
<1>2. LossesStand'
  BY LossesLast DEF AuthKitInv, AuthKitTypes
<1> QED BY <1>1, <1>2 DEF AuthKitInv

LEMMA DeviceStep ==
  ASSUME AuthKitInv, NEW d \in Devices,
         Logout(d) \/ BridgeExpires(d) \/ CentralRevokes(d) \/ AccessRunsOut(d)
  PROVE  AuthKitInv'
<1>1. AuthKitTypes /\ RequestsHold /\ BridgesStand /\ RevokedAreGone /\ LossesStand /\ FailsClosed
  BY DEF AuthKitInv
<1>2. CASE Logout(d)
  <2>1. /\ bridge' = [bridge EXCEPT ![d] = NoBridge]
        /\ live' = live \ {d} \/ live' = live
        /\ UNCHANGED <<window, clock, newest, ranOut, request, vouched, revoked, served, lost>>
    BY <1>2 DEF Logout
  <2>2. /\ bridge' \in [Devices -> [there : BOOLEAN, tokens : Nat, validated : Nat]]
        /\ ~bridge'[d].there /\ \A c \in Devices \ {d} : bridge'[c] = bridge[c]
    <3>1. NoBridge \in [there : BOOLEAN, tokens : Nat, validated : Nat] /\ ~NoBridge.there
      BY DEF NoBridge
    <3> HIDE DEF NoBridge
    <3> QED BY <1>1, <2>1, <3>1 DEF AuthKitTypes
  <2>3. AuthKitTypes'
    BY <1>1, <2>1, <2>2 DEF AuthKitTypes
  <2>4. BridgesStand' /\ RevokedAreGone'
    BY <1>1, <2>1, <2>2 DEF BridgesStand, RevokedAreGone
  <2>5. RequestsHold' /\ LossesStand' /\ FailsClosed'
    BY <1>1, <2>1 DEF RequestsHold, LossesStand, FailsClosed, RunOut
  <2> QED BY <2>3, <2>4, <2>5 DEF AuthKitInv
<1>3. CASE BridgeExpires(d)
  <2>1. /\ Revoke(d, "expired")
        /\ UNCHANGED <<window, clock, live, newest, ranOut, request, vouched, revoked, served>>
    BY <1>3 DEF BridgeExpires
  <2>2. /\ bridge' \in [Devices -> [there : BOOLEAN, tokens : Nat, validated : Nat]]
        /\ BridgesStand' /\ LossesStand' /\ \A e \in lost' : e[1] \in Devices
    BY <2>1, RevokeStep
  <2>3. AuthKitTypes' /\ RequestsHold' /\ RevokedAreGone' /\ FailsClosed'
    BY <1>1, <2>1, <2>2 DEF AuthKitTypes, RequestsHold, RevokedAreGone, FailsClosed, RunOut
  <2> QED BY <2>2, <2>3 DEF AuthKitInv
<1>4. CASE CentralRevokes(d)
  <2>1. /\ live' = live \ {d} /\ revoked' = [revoked EXCEPT ![d] = clock]
        /\ UNCHANGED <<window, clock, newest, ranOut, bridge, request, vouched, served, lost>>
    BY <1>4 DEF CentralRevokes
  <2>2. /\ revoked' \in [Devices -> Int] /\ revoked'[d] # -1
        /\ \A c \in Devices \ {d} : revoked'[c] = revoked[c]
    BY <1>1, <2>1 DEF AuthKitTypes
  <2>3. \A c \in Devices : /\ bridge[c].there => c \in live' \/ revoked'[c] # -1
                           /\ revoked[c] # -1 => revoked'[c] # -1
                           /\ revoked'[c] # -1 => c \notin live'
    BY <1>1, <2>1, <2>2 DEF BridgesStand, RevokedAreGone
  <2>4. RequestsHold' /\ request' \in [Requests -> [at : Questions, device : Devices \cup {"none"},
                                                    tokens : Nat, begun : Int]] /\ clock' \in Nat
    BY <1>1, <2>1 DEF RequestsHold, AuthKitTypes, RunOut
  <2> QED BY <2>1, <2>2, <2>3, <2>4, QuietStep
<1>5. CASE AccessRunsOut(d)
  <2>1. /\ ranOut \subseteq ranOut'
        /\ UNCHANGED <<window, clock, live, newest, bridge, request, vouched, revoked, served, lost>>
    BY <1>5 DEF AccessRunsOut
  <2>2. RequestsHold' /\ AuthKitTypes'
    BY <1>1, <2>1 DEF RequestsHold, AuthKitTypes, RunOut
  <2>3. \A c \in Devices : /\ bridge[c].there => c \in live' \/ revoked'[c] # -1
                           /\ revoked'[c] # -1 => c \notin live'
    BY <1>1, <2>1 DEF BridgesStand, RevokedAreGone
  <2> QED BY <2>1, <2>2, <2>3, QuietStep DEF AuthKitTypes
<1> QED BY <1>2, <1>3, <1>4, <1>5

LEMMA TickStep ==
  ASSUME AuthKitInv, AuthKitTick \/ UNCHANGED authKitVars
  PROVE  AuthKitInv'
<1>1. /\ UNCHANGED <<window, live, newest, ranOut, bridge, request, vouched, revoked, served, lost>>
      /\ clock' = clock \/ clock' = clock + 1
  BY DEF AuthKitTick, authKitVars
<1>2. AuthKitTypes /\ RequestsHold /\ BridgesStand /\ RevokedAreGone
  BY DEF AuthKitInv
<1>3. RequestsHold' /\ AuthKitTypes'
  BY <1>1, <1>2 DEF RequestsHold, AuthKitTypes, RunOut
<1>4. \A c \in Devices : /\ bridge[c].there => c \in live' \/ revoked'[c] # -1
                         /\ revoked'[c] # -1 => c \notin live'
  BY <1>1, <1>2 DEF BridgesStand, RevokedAreGone
<1> QED BY <1>1, <1>3, <1>4, QuietStep DEF AuthKitTypes

\* A request that waits holds tokens its device was given.
LEMMA WaitHolds ==
  ASSUME AuthKitInv, NEW r \in Requests, NEW d \in Devices, NEW tokens \in 1 .. newest'[d],
         NEW what \in Questions, Ask(r, d, tokens, what), ranOut \subseteq ranOut',
         newest' \in [Devices -> Nat], \A c \in Devices : newest'[c] >= newest[c],
         what \in {"refresh", "rotated"} => d \in RunOut'
  PROVE  /\ RequestsHold'
         /\ request' \in [Requests -> [at : Questions, device : Devices \cup {"none"},
                                       tokens : Nat, begun : Int]]
<1>1. tokens \in Nat /\ AuthKitTypes /\ RequestsHold /\ newest \in [Devices -> Nat]
  BY DEF AuthKitInv, AuthKitTypes
<1>2. /\ request' \in [Requests -> [at : Questions, device : Devices \cup {"none"},
                                    tokens : Nat, begun : Int]]
      /\ request'[r].device = d /\ request'[r].tokens = tokens /\ request'[r].at = what
      /\ \A q \in Requests \ {r} : request'[q] = request[q]
  BY <1>1, WaitStep
<1>3. ASSUME NEW q \in Requests, request'[q].at # "idle"
      PROVE  /\ request'[q].device \in Devices /\ request'[q].tokens \in 1 .. newest'[request'[q].device]
             /\ request'[q].at \in {"refresh", "rotated"} => request'[q].device \in RunOut'
  <2>1. CASE q = r
    BY <1>2, <2>1
  <2>2. CASE q # r
    <3>1. request'[q] = request[q] /\ request[q].device \in Devices
          /\ request[q].tokens \in 1 .. newest[request[q].device]
          /\ (request[q].at \in {"refresh", "rotated"} => request[q].device \in RunOut)
      BY <1>1, <1>2, <1>3, <2>2 DEF RequestsHold
    <3>2. \A c \in Devices : newest'[c] \in Nat /\ newest[c] \in Nat /\ newest'[c] >= newest[c]
      BY <1>1
    <3>3. RunOut \subseteq RunOut'
      BY <3>2, RunOutLasts
    <3> QED BY <3>1, <3>2, <3>3
  <2> QED BY <2>1, <2>2
<1> QED BY <1>2, <1>3 DEF RequestsHold

LEMMA DoneHolds ==
  ASSUME AuthKitInv, NEW r \in Requests, Done(r), newest' = newest, ranOut' = ranOut
  PROVE  /\ RequestsHold'
         /\ request' \in [Requests -> [at : Questions, device : Devices \cup {"none"},
                                       tokens : Nat, begun : Int]]
BY DoneStep DEF AuthKitInv, RequestsHold, RunOut

LEMMA BeginStep ==
  ASSUME AuthKitInv, NEW r \in Requests, NEW d \in Devices,
         Begin(r, d) \/ OpenSocket(r, d)
  PROVE  AuthKitInv'
<1>1. AuthKitTypes /\ RequestsHold /\ BridgesStand /\ RevokedAreGone /\ LossesStand /\ FailsClosed
      /\ newest \in [Devices -> Nat]
  BY DEF AuthKitInv, AuthKitTypes
<1>2. /\ bridge[d].there
      /\ UNCHANGED <<window, clock, live, newest, ranOut, bridge, vouched, revoked, lost>>
  BY DEF Begin, OpenSocket
<1>3. BridgesStand' /\ RevokedAreGone' /\ LossesStand'
  BY <1>1, <1>2 DEF BridgesStand, RevokedAreGone, LossesStand, RunOut
<1>4. CASE Trusted(bridge[d].validated) /\ Serve(d, clock, vouched[d]) /\ UNCHANGED request
  <2>1. /\ window > 0 /\ clock - bridge[d].validated < window /\ bridge[d].validated <= vouched[d]
        /\ vouched[d] \in Int /\ bridge[d].validated \in Nat /\ clock \in Nat /\ window \in Nat
    BY <1>1, <1>2, <1>4 DEF Trusted, BridgesStand, AuthKitTypes
  <2>2. clock - vouched[d] < window
    BY <2>1
  <2>3. FailsClosed' /\ served' \in [at : Int, begun : Int, vouched : Int, revoked : Int]
    BY <1>2, <1>4, <2>1, <2>2, ServeStep
  <2>4. AuthKitTypes' /\ RequestsHold'
    BY <1>1, <1>2, <1>4, <2>3 DEF AuthKitTypes, RequestsHold, RunOut
  <2> QED BY <1>3, <2>3, <2>4 DEF AuthKitInv
<1>5. CASE Ask(r, d, bridge[d].tokens, "me") /\ UNCHANGED served
  <2>1. bridge[d].tokens \in 1 .. newest'[d] /\ "me" \in Questions
        /\ newest' \in [Devices -> Nat] /\ \A c \in Devices : newest'[c] >= newest[c]
    BY <1>1, <1>2 DEF BridgesStand, Questions
  <2>2. RequestsHold' /\ request' \in [Requests -> [at : Questions, device : Devices \cup {"none"},
                                                    tokens : Nat, begun : Int]]
    BY <1>2, <1>5, <2>1, WaitHolds
  <2>3. AuthKitTypes' /\ FailsClosed'
    BY <1>1, <1>2, <1>5, <2>2 DEF AuthKitTypes, FailsClosed
  <2> QED BY <1>3, <2>2, <2>3 DEF AuthKitInv
<1> QED BY <1>4, <1>5 DEF Begin, OpenSocket, Wait

\* A request that was refused takes the row with it, for a reason that is true.
LEMMA RefusedStep ==
  ASSUME AuthKitInv, NEW r \in Requests, NEW d \in Devices, NEW why, Done(r), Revoke(d, why),
         UNCHANGED <<window, clock, live, newest, ranOut, vouched, revoked, served>>,
         bridge[d].there =>
           \/ why = "revoked" /\ revoked[d] # -1
           \/ why = "spent" /\ newest[d] > 1
           \/ why \in {"ran out", "trouble", "limited"} /\ d \in RunOut
  PROVE  AuthKitInv'
<1>1. /\ bridge' \in [Devices -> [there : BOOLEAN, tokens : Nat, validated : Nat]]
      /\ BridgesStand' /\ LossesStand' /\ \A e \in lost' : e[1] \in Devices
  BY RevokeStep
<1>2. /\ RequestsHold'
      /\ request' \in [Requests -> [at : Questions, device : Devices \cup {"none"},
                                    tokens : Nat, begun : Int]]
  BY DoneHolds
<1>3. AuthKitTypes' /\ RevokedAreGone' /\ FailsClosed'
  BY <1>1, <1>2 DEF AuthKitInv, AuthKitTypes, RevokedAreGone, FailsClosed
<1> QED BY <1>1, <1>2, <1>3 DEF AuthKitInv

\* A request that goes on to its next question.
LEMMA OnwardStep ==
  ASSUME AuthKitInv, NEW r \in Requests, NEW d \in Devices, NEW tokens \in 1 .. newest[d],
         NEW what \in Questions, Wait(r, d, tokens, what), what \in {"refresh", "rotated"} => d \in RunOut,
         UNCHANGED <<window, clock, live, newest, ranOut, bridge, vouched, revoked, served, lost>>
  PROVE  AuthKitInv'
<1>1. newest' \in [Devices -> Nat] /\ (\A c \in Devices : newest'[c] >= newest[c]) /\ newest' = newest
      /\ Ask(r, d, tokens, what) /\ RunOut' = RunOut
  BY DEF AuthKitInv, AuthKitTypes, Wait, RunOut
<1>2. /\ RequestsHold'
      /\ request' \in [Requests -> [at : Questions, device : Devices \cup {"none"},
                                    tokens : Nat, begun : Int]]
  BY <1>1, WaitHolds
<1>3. \A c \in Devices : /\ bridge[c].there => c \in live' \/ revoked'[c] # -1
                         /\ revoked'[c] # -1 => c \notin live'
  BY DEF AuthKitInv, BridgesStand, RevokedAreGone
<1> QED BY <1>2, <1>3, QuietStep DEF AuthKitInv, AuthKitTypes

\* What a request that waits is known to hold.
LEMMA Waiting ==
  ASSUME AuthKitInv, NEW r \in Requests, request[r].at # "idle"
  PROVE  /\ request[r].device \in Devices
         /\ request[r].tokens \in 1 .. newest[request[r].device]
         /\ newest[request[r].device] \in Nat /\ request[r].begun \in Int
         /\ request[r].at \in {"refresh", "rotated"} => request[r].device \in RunOut
BY DEF AuthKitInv, AuthKitTypes, RequestsHold

LEMMA AskMeStep ==
  ASSUME AuthKitInv, NEW r \in Requests, AskMe(r)
  PROVE  AuthKitInv'
<1> DEFINE d == request[r].device
           tokens == request[r].tokens
<1>1. d \in Devices /\ tokens \in 1 .. newest[d]
  BY Waiting DEF AskMe
<1>2. /\ UNCHANGED <<window, clock, live, newest, ranOut, vouched, revoked, served>>
      /\ \/ /\ Wait(r, d, tokens, "product") \/ (Wait(r, d, tokens, "refresh") /\ <<d, tokens>> \in ranOut)
            /\ UNCHANGED <<bridge, lost>>
         \/ Done(r) /\ Revoke(d, "ran out") /\ <<d, tokens>> \in ranOut
  BY DEF AskMe
<1> HIDE DEF d, tokens
<1>3. CASE Done(r) /\ Revoke(d, "ran out") /\ <<d, tokens>> \in ranOut
  <2>1. d \in RunOut
    BY <1>1, <1>3 DEF RunOut
  <2> QED BY <1>1, <1>2, <1>3, <2>1, RefusedStep
<1>4. CASE /\ Wait(r, d, tokens, "product") \/ (Wait(r, d, tokens, "refresh") /\ <<d, tokens>> \in ranOut)
           /\ UNCHANGED <<bridge, lost>>
  <2>1. "product" \in Questions /\ "refresh" \in Questions
        /\ (<<d, tokens>> \in ranOut => d \in RunOut)
    BY <1>1 DEF Questions, RunOut
  <2>2. CASE Wait(r, d, tokens, "product")
    BY <1>1, <1>2, <1>4, <2>1, <2>2, OnwardStep
  <2>3. CASE Wait(r, d, tokens, "refresh") /\ <<d, tokens>> \in ranOut
    BY <1>1, <1>2, <1>4, <2>1, <2>3, OnwardStep
  <2> QED BY <1>4, <2>2, <2>3
<1> QED BY <1>2, <1>3, <1>4

LEMMA RotateStep ==
  ASSUME AuthKitInv, NEW r \in Requests, RotateTokens(r)
  PROVE  AuthKitInv'
<1> DEFINE d == request[r].device
<1>1. AuthKitTypes /\ RequestsHold /\ BridgesStand /\ RevokedAreGone /\ LossesStand /\ FailsClosed
      /\ d \in Devices /\ d \in RunOut
  BY Waiting DEF AuthKitInv, RotateTokens
<1>2. /\ newest' = [newest EXCEPT ![d] = @ + 1] /\ Wait(r, d, newest'[d], "rotated")
      /\ UNCHANGED <<window, clock, live, ranOut, bridge, vouched, revoked, served, lost>>
  BY DEF RotateTokens
<1> HIDE DEF d
<1>3. /\ newest' \in [Devices -> Nat] /\ newest'[d] \in 1 .. newest'[d]
      /\ \A c \in Devices : newest'[c] >= newest[c] /\ newest[c] \in Nat /\ newest'[c] \in Nat
  BY <1>1, <1>2 DEF AuthKitTypes
<1>4. /\ RequestsHold'
      /\ request' \in [Requests -> [at : Questions, device : Devices \cup {"none"},
                                    tokens : Nat, begun : Int]]
  <2>1. "rotated" \in Questions
    BY DEF Questions
  <2>2. \A c \in Devices : newest'[c] >= newest[c]
    BY <1>3
  <2> DEFINE tokens == newest'[d]
  <2>3. tokens \in 1 .. newest'[d] /\ Ask(r, d, tokens, "rotated") /\ ranOut \subseteq ranOut'
    BY <1>2, <1>3 DEF Wait
  <2>4. d \in RunOut'
    BY <1>1, <1>3, <2>3, RunOutLasts
  <2> HIDE DEF tokens
  <2> QED BY <1>1, <1>3, <2>1, <2>2, <2>3, <2>4, WaitHolds
<1>5. BridgesStand'
  <2> SUFFICES ASSUME NEW c \in Devices, bridge[c].there
               PROVE  /\ bridge[c].tokens \in 1 .. newest'[c] /\ bridge[c].validated <= vouched[c]
                      /\ c \in live \/ revoked[c] # -1
    BY <1>2 DEF BridgesStand
  <2> QED BY <1>1, <1>3 DEF BridgesStand
<1>6. LossesStand'
  BY <1>1, <1>2, <1>3, LossesLast DEF AuthKitTypes
<1>7. AuthKitTypes' /\ RevokedAreGone' /\ FailsClosed'
  BY <1>1, <1>2, <1>3, <1>4 DEF AuthKitTypes, RevokedAreGone, FailsClosed
<1> QED BY <1>4, <1>5, <1>6, <1>7 DEF AuthKitInv

LEMMA StoreStep ==
  ASSUME AuthKitInv, NEW r \in Requests, StoreTokens(r)
  PROVE  AuthKitInv'
<1> DEFINE d == request[r].device
           tokens == request[r].tokens
<1>1. AuthKitTypes /\ RevokedAreGone /\ LossesStand /\ FailsClosed
      /\ d \in Devices /\ tokens \in 1 .. newest[d]
  BY Waiting DEF AuthKitInv, StoreTokens
<1>2. /\ Validated(d, tokens) /\ vouched' = [vouched EXCEPT ![d] = clock]
      /\ Wait(r, d, tokens, "again")
      /\ UNCHANGED <<window, clock, live, newest, ranOut, revoked, served, lost>>
  BY DEF StoreTokens
<1> HIDE DEF d, tokens
<1>3. /\ bridge' \in [Devices -> [there : BOOLEAN, tokens : Nat, validated : Nat]]
      /\ vouched' \in [Devices -> Int] /\ BridgesStand'
  BY <1>1, <1>2, ValidatedStep
<1>4. /\ RequestsHold'
      /\ request' \in [Requests -> [at : Questions, device : Devices \cup {"none"},
                                    tokens : Nat, begun : Int]]
  <2>1. "again" \in Questions \ {"refresh", "rotated"} /\ Ask(r, d, tokens, "again")
        /\ ranOut \subseteq ranOut' /\ newest' \in [Devices -> Nat] /\ tokens \in 1 .. newest'[d]
        /\ \A c \in Devices : newest'[c] >= newest[c]
    BY <1>1, <1>2 DEF Questions, AuthKitTypes, Wait
  <2> QED BY <1>1, <1>2, <2>1, WaitHolds
<1>5. AuthKitTypes' /\ RevokedAreGone' /\ LossesStand' /\ FailsClosed'
  BY <1>1, <1>2, <1>3, <1>4 DEF AuthKitTypes, RevokedAreGone, LossesStand, FailsClosed, RunOut
<1> QED BY <1>3, <1>4, <1>5 DEF AuthKitInv

LEMMA RefuseStep ==
  ASSUME AuthKitInv, NEW r \in Requests, NEW answer \in {"refused", "limited", "trouble"},
         RefuseTokens(r, answer)
  PROVE  AuthKitInv'
<1> DEFINE d == request[r].device
           why == IF answer # "refused" THEN answer ELSE IF d \in live THEN "spent" ELSE "revoked"
<1>1. /\ d \in Devices /\ request[r].tokens \in 1 .. newest[d] /\ newest[d] \in Nat /\ d \in RunOut
      /\ answer = "refused" => d \notin live \/ request[r].tokens # newest[d]
      /\ Done(r) /\ Revoke(d, why)
      /\ UNCHANGED <<window, clock, live, newest, ranOut, vouched, revoked, served>>
  BY Waiting DEF RefuseTokens
<1>2. bridge[d].there => \/ why = "revoked" /\ revoked[d] # -1
                         \/ why = "spent" /\ newest[d] > 1
                         \/ why \in {"ran out", "trouble", "limited"} /\ d \in RunOut
  <2>1. bridge[d].there => d \in live \/ revoked[d] # -1
    BY <1>1 DEF AuthKitInv, BridgesStand
  <2>2. CASE answer = "refused" /\ d \in live
    BY <1>1, <2>2
  <2>3. CASE answer = "refused" /\ d \notin live
    BY <2>1, <2>3
  <2>4. CASE answer # "refused"
    BY <1>1, <2>4
  <2> QED BY <2>2, <2>3, <2>4
<1> HIDE DEF d, why
<1> QED BY <1>1, <1>2, RefusedStep

\* The row was validated this moment, so what is asked next is asked with its tokens.
LEMMA ProductStep ==
  ASSUME AuthKitInv, NEW r \in Requests, AskProduct(r)
  PROVE  AuthKitInv'
<1> DEFINE d == request[r].device
           begun == request[r].begun
<1>1. AuthKitTypes /\ RevokedAreGone /\ LossesStand /\ FailsClosed /\ BridgesStand
      /\ d \in Devices /\ begun \in Int
  BY Waiting DEF AuthKitInv, AskProduct
<1>2. /\ vouched' = [vouched EXCEPT ![d] = clock] /\ Validated(d, bridge[d].tokens)
      /\ \/ bridge[d].there /\ Wait(r, d, bridge[d].tokens, "sessions") /\ UNCHANGED served
         \/ Done(r) /\ Serve(d, begun, clock)
      /\ UNCHANGED <<window, clock, live, newest, ranOut, revoked, lost>>
  BY DEF AskProduct
<1> HIDE DEF d, begun
<1>3. bridge[d].there => bridge[d].tokens \in 1 .. newest[d]
  BY <1>1 DEF BridgesStand
<1>4. /\ bridge' \in [Devices -> [there : BOOLEAN, tokens : Nat, validated : Nat]]
      /\ vouched' \in [Devices -> Int] /\ BridgesStand'
  BY <1>1, <1>2, <1>3, ValidatedStep
<1>5. RevokedAreGone' /\ LossesStand'
  BY <1>1, <1>2 DEF RevokedAreGone, LossesStand, RunOut
<1>6. CASE bridge[d].there /\ Wait(r, d, bridge[d].tokens, "sessions") /\ UNCHANGED served
  <2>1. "sessions" \in Questions \ {"refresh", "rotated"} /\ Ask(r, d, bridge[d].tokens, "sessions")
        /\ ranOut \subseteq ranOut' /\ newest' \in [Devices -> Nat] /\ bridge[d].tokens \in 1 .. newest'[d]
        /\ \A c \in Devices : newest'[c] >= newest[c]
    BY <1>1, <1>2, <1>3, <1>6 DEF Questions, AuthKitTypes, Wait
  <2>2. /\ RequestsHold'
        /\ request' \in [Requests -> [at : Questions, device : Devices \cup {"none"},
                                      tokens : Nat, begun : Int]]
    BY <1>1, <1>6, <2>1, WaitHolds
  <2>3. AuthKitTypes' /\ FailsClosed'
    BY <1>1, <1>2, <1>4, <1>6, <2>2 DEF AuthKitTypes, FailsClosed
  <2> QED BY <1>4, <1>5, <2>2, <2>3 DEF AuthKitInv
<1>7. CASE Done(r) /\ Serve(d, begun, clock)
  <2>1. /\ RequestsHold'
        /\ request' \in [Requests -> [at : Questions, device : Devices \cup {"none"},
                                      tokens : Nat, begun : Int]]
    BY <1>2, <1>7, DoneHolds
  <2>2. clock \in Int /\ window' = window
    BY <1>1, <1>2 DEF AuthKitTypes
  <2>3. FailsClosed' /\ served' \in [at : Int, begun : Int, vouched : Int, revoked : Int]
    BY <1>1, <1>7, <2>2, ServeStep
  <2>4. AuthKitTypes'
    BY <1>1, <1>2, <1>4, <2>1, <2>3 DEF AuthKitTypes
  <2> QED BY <1>4, <1>5, <2>1, <2>3, <2>4 DEF AuthKitInv
<1> QED BY <1>2, <1>6, <1>7

LEMMA SocketProductStep ==
  ASSUME AuthKitInv, NEW r \in Requests, AskProductForSocket(r)
  PROVE  AuthKitInv'
<1> DEFINE d == request[r].device
           tokens == request[r].tokens
<1>1. d \in Devices /\ tokens \in 1 .. newest[d]
  BY Waiting DEF AskProductForSocket
<1>2. /\ UNCHANGED <<window, clock, live, newest, ranOut, vouched, revoked, served>>
      /\ \/ Wait(r, d, tokens, "sessions") /\ UNCHANGED <<bridge, lost>>
         \/ Done(r) /\ Revoke(d, "ran out") /\ <<d, tokens>> \in ranOut
  BY DEF AskProductForSocket
<1> HIDE DEF d, tokens
<1>3. CASE Done(r) /\ Revoke(d, "ran out") /\ <<d, tokens>> \in ranOut
  <2>1. d \in RunOut
    BY <1>1, <1>3 DEF RunOut
  <2> QED BY <1>1, <1>2, <1>3, <2>1, RefusedStep
<1>4. CASE Wait(r, d, tokens, "sessions") /\ UNCHANGED <<bridge, lost>>
  <2>1. "sessions" \in Questions \ {"refresh", "rotated"}
    BY DEF Questions
  <2> QED BY <1>1, <1>2, <1>4, <2>1, OnwardStep
<1> QED BY <1>2, <1>3, <1>4

LEMMA SessionsStep ==
  ASSUME AuthKitInv, NEW r \in Requests, AskSessions(r)
  PROVE  AuthKitInv'
<1> DEFINE d == request[r].device
           tokens == request[r].tokens
           begun == request[r].begun
           why == IF d \in live THEN "ran out" ELSE "revoked"
<1>1. /\ AuthKitTypes /\ RevokedAreGone /\ LossesStand /\ BridgesStand
      /\ d \in Devices /\ tokens \in 1 .. newest[d] /\ begun \in Int /\ Done(r)
      /\ UNCHANGED <<window, clock, live, newest, ranOut, revoked>>
  BY Waiting DEF AuthKitInv, AskSessions
<1>2. \/ /\ Serve(d, begun, clock) /\ UNCHANGED lost
         /\ \/ Validated(d, bridge[d].tokens) /\ vouched' = [vouched EXCEPT ![d] = clock]
            \/ UNCHANGED <<bridge, vouched>>
      \/ /\ d \notin live \/ <<d, tokens>> \in ranOut
         /\ Revoke(d, why) /\ UNCHANGED <<served, vouched>>
  BY DEF AskSessions
<1>3. CASE /\ Serve(d, begun, clock) /\ UNCHANGED lost
           /\ \/ Validated(d, bridge[d].tokens) /\ vouched' = [vouched EXCEPT ![d] = clock]
              \/ UNCHANGED <<bridge, vouched>>
  <2> HIDE DEF d, tokens, begun
  <2>1. /\ RequestsHold'
        /\ request' \in [Requests -> [at : Questions, device : Devices \cup {"none"},
                                      tokens : Nat, begun : Int]]
    BY <1>1, DoneHolds
  <2>2. clock \in Int /\ window' = window
    BY <1>1 DEF AuthKitTypes
  <2>3. FailsClosed' /\ served' \in [at : Int, begun : Int, vouched : Int, revoked : Int]
    BY <1>1, <1>3, <2>2, ServeStep
  <2>4. /\ bridge' \in [Devices -> [there : BOOLEAN, tokens : Nat, validated : Nat]]
        /\ vouched' \in [Devices -> Int] /\ BridgesStand'
    <3>1. CASE Validated(d, bridge[d].tokens) /\ vouched' = [vouched EXCEPT ![d] = clock]
      <4>1. bridge[d].there => bridge[d].tokens \in 1 .. newest[d]
        BY <1>1 DEF BridgesStand
      <4> QED BY <1>1, <1>3, <3>1, <4>1, ValidatedStep
    <3>2. CASE UNCHANGED <<bridge, vouched>>
      BY <1>1, <3>2 DEF AuthKitTypes, BridgesStand
    <3> QED BY <1>3, <3>1, <3>2
  <2>5. AuthKitTypes' /\ RevokedAreGone' /\ LossesStand'
    BY <1>1, <1>3, <2>1, <2>3, <2>4 DEF AuthKitTypes, RevokedAreGone, LossesStand, RunOut
  <2> QED BY <2>1, <2>3, <2>4, <2>5 DEF AuthKitInv
<1>4. CASE /\ d \notin live \/ <<d, tokens>> \in ranOut
           /\ Revoke(d, why) /\ UNCHANGED <<served, vouched>>
  <2>1. bridge[d].there => \/ why = "revoked" /\ revoked[d] # -1
                           \/ why = "ran out" /\ d \in RunOut
    <3>1. CASE d \in live
      BY <1>1, <1>4, <3>1 DEF RunOut
    <3>2. CASE d \notin live
      BY <1>1, <3>2 DEF BridgesStand
    <3> QED BY <3>1, <3>2
  <2> HIDE DEF d, why
  <2> QED BY <1>1, <1>4, <2>1, RefusedStep
<1> QED BY <1>2, <1>3, <1>4

LEMMA NoAnswerStep ==
  ASSUME AuthKitInv, NEW r \in Requests, NoAnswer(r)
  PROVE  AuthKitInv'
<1>1. /\ Done(r) /\ UNCHANGED <<bridge, lost>>
      /\ UNCHANGED <<window, clock, live, newest, ranOut, vouched, revoked, served>>
  BY DEF NoAnswer, Unanswered
<1>2. /\ RequestsHold'
      /\ request' \in [Requests -> [at : Questions, device : Devices \cup {"none"},
                                    tokens : Nat, begun : Int]]
  BY <1>1, DoneHolds
<1>3. \A c \in Devices : /\ bridge[c].there => c \in live' \/ revoked'[c] # -1
                         /\ revoked'[c] # -1 => c \notin live'
  BY <1>1 DEF AuthKitInv, BridgesStand, RevokedAreGone
<1> QED BY <1>1, <1>2, <1>3, QuietStep DEF AuthKitInv, AuthKitTypes

\* A request is let through on an answer of AuthKit no older than the window, and a
\* device that AuthKit still knows keeps its row through outages, limits and crowds while
\* its access token holds; once one has run out, a refresh that is spent, or answered with
\* trouble or a socket's limit, takes it (authkit-identity.mjs, authkit-session-guard.mjs,
\* realtime-notifications.mjs).
THEOREM AuthKitHolds == AuthKitSpec => []AuthKitSound
<1>1. AuthKitInit => AuthKitInv
  BY AuthKitAssumption DEF AuthKitInit, AuthKitInv, AuthKitTypes, RequestsHold, BridgesStand,
     RevokedAreGone, LossesStand, FailsClosed, NoBridge, Idle, Questions
<1>2. AuthKitInv /\ [AuthKitNext]_authKitVars => AuthKitInv'
  BY TickStep, SignInWithStep, DeviceStep, BeginStep, AskMeStep, RotateStep, StoreStep,
     RefuseStep, ProductStep, SocketProductStep, SessionsStep, NoAnswerStep DEF AuthKitNext
<1> QED BY <1>1, <1>2, AuthKitFollows, PTL DEF AuthKitSpec

\* The three ways into an account: its codes and links, its providers and numbers, and
\* the sessions that AuthKit vouches for.
THEOREM AccountsHold == SignInSpec /\ IdentitiesSpec /\ AuthKitSpec => []AccountsSound
BY SignInHolds, IdentitiesHold, AuthKitHolds, PTL DEF AccountsSound

(***************************************************************************)
(* Usage: a month is closed on readings of a month that is over, and what  *)
(* a process remembers of the storage covers what it has taken in itself.  *)
(***************************************************************************)
\* Of finitely many things with a number each, one has the greatest.
LEMMA GreatestOf ==
  ASSUME NEW S, IsFiniteSet(S), S # {}, NEW g \in [S -> Nat]
  PROVE  \E s \in S : \A t \in S : g[t] <= g[s]
<1> DEFINE above(s) == {t \in S : g[t] > g[s]}
           A == {above(s) : s \in S}
<1>1. A \subseteq FiniteSubsetsOf(S) /\ A # {}
  <2>1. \A s \in S : IsFiniteSet(above(s))
    <3> SUFFICES ASSUME NEW s \in S PROVE IsFiniteSet(above(s))
      OBVIOUS
    <3>1. above(s) \in SUBSET S
      OBVIOUS
    <3> HIDE DEF above
    <3> QED BY <3>1, FS_Subset
  <2>2. \A s \in S : above(s) \in SUBSET S
    OBVIOUS
  <2> HIDE DEF above
  <2> QED BY <2>1, <2>2 DEF FiniteSubsetsOf
<1>2. PICK s \in S : \A t \in S : <<above(t), above(s)>> \notin StrictSubsetOrdering(S)
  <2> HIDE DEF A
  <2>1. IsWellFoundedOn(StrictSubsetOrdering(S), FiniteSubsetsOf(S))
    BY FS_StrictSubsetOrderingWellFounded
  <2>2. \E x \in A : \A y \in A : ~(<<y, x>> \in StrictSubsetOrdering(S))
    BY <1>1, <2>1, WFMin
  <2> QED BY <2>2 DEF A
<1>3. ASSUME NEW t \in S, ~(g[t] <= g[s]) PROVE FALSE
  <2>0. g[t] \in Nat /\ g[s] \in Nat /\ g[t] > g[s]
    BY <1>3
  <2>1. above(t) \subseteq above(s) /\ t \in above(s) /\ t \notin above(t)
    BY <2>0
  <2>2. above(t) \in SUBSET S /\ above(s) \in SUBSET S
    OBVIOUS
  <2> HIDE DEF above
  <2>3. <<above(t), above(s)>> \in StrictSubsetOrdering(S)
    BY <2>1, <2>2 DEF StrictSubsetOrdering
  <2> QED BY <1>2, <2>3
<1> QED BY <1>3

\* What holds at zero and goes up one by one holds at n.
LEMMA UpToThere ==
  ASSUME NEW n \in Nat, NEW T, 0 \in T, \A k \in 0 .. n : k \in T /\ k < n => k + 1 \in T
  PROVE  n \in T
<1> DEFINE S == T \cap (0 .. n)
           g == [k \in S |-> k]
<1>1. IsFiniteSet(S) /\ 0 \in S
  <2>1. IsFiniteSet(0 .. n)
    BY FS_Interval
  <2>2. S \in SUBSET (0 .. n) /\ 0 \in S
    OBVIOUS
  <2> HIDE DEF S
  <2> QED BY <2>1, <2>2, FS_Subset
<1>2. g \in [S -> Nat] /\ \A k \in S : g[k] = k
  OBVIOUS
<1>3. PICK k \in S : \A l \in S : g[l] <= g[k]
  <2> HIDE DEF S, g
  <2> QED BY <1>1, <1>2, GreatestOf
<1>4. \A l \in S : l <= k
  <2> HIDE DEF S, g
  <2> QED BY <1>2, <1>3
<1>5. k \in T /\ k \in 0 .. n
  OBVIOUS
<1>6. CASE k = n
  BY <1>5, <1>6
<1>7. CASE k # n
  <2>1. k + 1 \in S
    BY <1>5, <1>7
  <2> QED BY <1>4, <1>5, <2>1
<1> QED BY <1>6, <1>7

Chosen(s) == CHOOSE x \in s : TRUE
MinutesAt(f, s) == IF s = {} THEN 0 ELSE MinutesOf(Chosen(s), time) + f[s \ {Chosen(s)}]
SumsUp(S, f) == f = [s \in SUBSET S |-> MinutesAt(f, s)]

LEMMA ChosenFrom ==
  ASSUME NEW s, IsFiniteSet(s), s # {}
  PROVE  /\ Chosen(s) \in s /\ Cardinality(s) \in Nat /\ Cardinality(s) # 0
         /\ Cardinality(s \ {Chosen(s)}) = Cardinality(s) - 1
<1>1. Chosen(s) \in s
  BY DEF Chosen
<1>2. Cardinality(s \ {Chosen(s)}) = Cardinality(s) - 1
  BY <1>1, FS_RemoveElement
<1>3. Cardinality(s) \in Nat /\ Cardinality(s) # 0
  BY FS_CardinalityType, FS_EmptySet
<1> QED BY <1>1, <1>2, <1>3

LEMMA SumsExist ==
  ASSUME NEW S, IsFiniteSet(S)
  PROVE  \E f : SumsUp(S, f)
<1> DEFINE Upto(n, f) == \A s \in SUBSET S : Cardinality(s) <= n => f[s] = MinutesAt(f, s)
           T == {n \in Nat : \E f : Upto(n, f)}
<1>0. \A s \in SUBSET S : IsFiniteSet(s) /\ Cardinality(s) \in Nat /\ Cardinality(s) <= Cardinality(S)
  BY FS_Subset, FS_CardinalityType
<1>1. 0 \in T
  <2> DEFINE f == [s \in SUBSET S |-> 0]
  <2>1. ASSUME NEW s \in SUBSET S, Cardinality(s) <= 0 PROVE f[s] = MinutesAt(f, s)
    <3>1. s = {}
      BY <1>0, <2>1, FS_EmptySet
    <3> QED BY <3>1 DEF MinutesAt
  <2>2. Upto(0, f)
    BY <2>1
  <2> HIDE DEF Upto, f
  <2> QED BY <2>2
<1>2. ASSUME NEW n \in Nat, n \in T PROVE n + 1 \in T
  <2>1. PICK f : Upto(n, f)
    <3> HIDE DEF Upto
    <3> QED BY <1>2
  <2> DEFINE g == [s \in SUBSET S |-> IF Cardinality(s) <= n THEN f[s] ELSE MinutesAt(f, s)]
  <2>2. ASSUME NEW s \in SUBSET S, Cardinality(s) <= n + 1 PROVE g[s] = MinutesAt(g, s)
    <3>1. g[s] = MinutesAt(f, s)
      BY <2>1
    <3>2. CASE s = {}
      BY <3>1, <3>2 DEF MinutesAt
    <3>3. CASE s # {}
      <4>1. s \ {Chosen(s)} \in SUBSET S /\ Cardinality(s \ {Chosen(s)}) <= n
        BY <1>0, <2>2, <3>3, ChosenFrom
      <4>2. g[s \ {Chosen(s)}] = f[s \ {Chosen(s)}]
        BY <4>1
      <4> HIDE DEF g
      <4> QED BY <3>1, <3>3, <4>2 DEF MinutesAt
    <3> QED BY <3>2, <3>3
  <2>3. Upto(n + 1, g)
    BY <2>2
  <2> HIDE DEF Upto, g
  <2> QED BY <2>3
<1>3. PICK f : Upto(Cardinality(S), f)
  <2>1. Cardinality(S) \in Nat
    BY FS_CardinalityType
  <2> HIDE DEF T
  <2>2. Cardinality(S) \in T
    BY <1>1, <1>2, <2>1, UpToThere
  <2> HIDE DEF Upto
  <2> QED BY <2>2 DEF T
<1> DEFINE g == [s \in SUBSET S |-> f[s]]
<1>4. ASSUME NEW s \in SUBSET S PROVE g[s] = MinutesAt(g, s)
  <2>1. g[s] = MinutesAt(f, s)
    BY <1>0, <1>3
  <2>2. CASE s = {}
    BY <2>1, <2>2 DEF MinutesAt
  <2>3. CASE s # {}
    <3>1. g[s \ {Chosen(s)}] = f[s \ {Chosen(s)}]
      OBVIOUS
    <3> HIDE DEF g
    <3> QED BY <2>1, <2>3, <3>1 DEF MinutesAt
  <2> QED BY <2>2, <2>3
<1>5. SumsUp(S, g)
  <2>1. g = [s \in SUBSET S |-> g[s]]
    OBVIOUS
  <2> HIDE DEF g
  <2> QED BY <1>4, <2>1 DEF SumsUp
<1> QED BY <1>5

\* What is billed for numbers of minutes is a number of minutes.
LEMMA SumIsANumber ==
  ASSUME NEW S, IsFiniteSet(S), \A j \in S : MinutesOf(j, time) \in Nat
  PROVE  MapThenSumSet(LAMBDA j : MinutesOf(j, time), S) \in Nat
<1> DEFINE iter == CHOOSE f : SumsUp(S, f)
<1>1. SumsUp(S, iter)
  BY SumsExist
<1>2. MapThenSumSet(LAMBDA j : MinutesOf(j, time), S) = iter[S]
  BY Zenon DEF MapThenSumSet, MapThenFoldSet, SumsUp, MinutesAt, Chosen
<1> HIDE DEF iter
<1> DEFINE T == {n \in Nat : \A s \in SUBSET S : Cardinality(s) <= n => iter[s] \in Nat}
<1>0. \A s \in SUBSET S : IsFiniteSet(s) /\ Cardinality(s) \in Nat /\ iter[s] = MinutesAt(iter, s)
  BY <1>1, FS_Subset, FS_CardinalityType DEF SumsUp
<1>3. 0 \in T
  <2>1. ASSUME NEW s \in SUBSET S, Cardinality(s) <= 0 PROVE iter[s] \in Nat
    <3>1. s = {}
      BY <1>0, <2>1, FS_EmptySet
    <3>2. MinutesAt(iter, s) = 0
      BY <3>1 DEF MinutesAt
    <3> QED BY <1>0, <3>2
  <2> QED BY <2>1
<1>4. ASSUME NEW n \in Nat, n \in T PROVE n + 1 \in T
  <2>1. ASSUME NEW s \in SUBSET S, Cardinality(s) <= n + 1 PROVE iter[s] \in Nat
    <3>1. CASE s = {}
      BY <1>0, <3>1 DEF MinutesAt
    <3>2. CASE s # {}
      <4>1. s \ {Chosen(s)} \in SUBSET S /\ Cardinality(s \ {Chosen(s)}) <= n /\ Chosen(s) \in S
        BY <1>0, <2>1, <3>2, ChosenFrom
      <4>2. iter[s \ {Chosen(s)}] \in Nat /\ MinutesOf(Chosen(s), time) \in Nat
        BY <1>4, <4>1
      <4> QED BY <1>0, <3>2, <4>2 DEF MinutesAt
    <3> QED BY <3>1, <3>2
  <2> QED BY <2>1
<1>5. Cardinality(S) \in T
  <2>1. Cardinality(S) \in Nat
    BY FS_CardinalityType
  <2> HIDE DEF T
  <2> QED BY <1>3, <1>4, <2>1, UpToThere
<1>6. iter[S] \in Nat
  <2>1. Cardinality(S) <= Cardinality(S)
    BY FS_CardinalityType
  <2> QED BY <1>5, <2>1
<1> QED BY <1>2, <1>6

UsageShape ==
  /\ time \in Nat /\ customers \in Seq(Customers) /\ packs \in [Customers -> Nat]
  /\ uploads \in [Customers -> [LfsOids -> Meters \cup {Unset, Attached}]]
  /\ sizes \in [Meters -> [Customers -> Nat \cup {Unread}]] /\ standing \in [Meters -> [Customers -> Nat \cup {Unread}]]

\* A job ends after it has started, and starts before now.
JobsStand ==
  /\ DOMAIN ciJobs \subseteq CIJobs
  /\ \A j \in DOMAIN ciJobs :
       /\ ciJobs[j] \in [of : Customers, started : Nat, ended : Nat \cup {Unset}] /\ ciJobs[j].started <= time
       /\ ciJobs[j].ended = Unset \/ (ciJobs[j].ended \in Nat /\ ciJobs[j].started <= ciJobs[j].ended)

ReadingsStand ==
  /\ IsFiniteSet(samples)
  /\ \A s \in samples : s.n \in Nat /\ s.bytes \in Nat /\ s.minutes \in Nat

UsageInv == UsageShape /\ JobsStand /\ ReadingsStand /\ ClosedMonthsStand /\ SeesItsUploads

LEMMA UsageStarts == UsageInit => UsageInv
<1> SUFFICES ASSUME UsageInit PROVE UsageInv
  OBVIOUS
<1>1. UsageShape
  BY DEF UsageInit, UsageShape, NoUpload
<1>2. JobsStand /\ ReadingsStand /\ ClosedMonthsStand
  BY FS_EmptySet DEF UsageInit, JobsStand, ReadingsStand, ClosedMonthsStand
<1>3. SeesItsUploads
  BY DEF UsageInit, SeesItsUploads
<1> QED BY <1>1, <1>2, <1>3 DEF UsageInv

\* What is measured is a number, and no less than what is held.
LEMMA Measured ==
  ASSUME UsageShape, NEW p \in Meters, NEW c \in Customers
  PROVE  /\ repositoryGitBytes(p, c) \in Nat /\ StorageOf(p, c) \in Nat
         /\ IsFiniteSet(HeldBy(c)) /\ Cardinality(HeldBy(c)) \in Nat /\ StorageOf(p, c) >= Cardinality(HeldBy(c))
<1>1. repositoryGitBytes(p, c) \in Nat
  BY DEF repositoryGitBytes, UsageShape
<1>2. HeldBy(c) \in SUBSET LfsOids
  BY DEF HeldBy
<1>3. IsFiniteSet(HeldBy(c)) /\ Cardinality(HeldBy(c)) \in Nat
  BY <1>2, UsageAssumption, FS_Subset, FS_CardinalityType
<1> QED BY <1>1, <1>3 DEF StorageOf

LEMMA MinutesAreNumbers ==
  ASSUME UsageShape, JobsStand, NEW c, NEW month
  PROVE  ciMinutes(c, month) \in Nat
<1> DEFINE billed == {j \in DOMAIN ciJobs : ciJobs[j].of = c /\ billingPeriod(ciJobs[j].started) = month}
<1>1. IsFiniteSet(billed)
  <2>1. billed \in SUBSET CIJobs
    BY DEF JobsStand
  <2> HIDE DEF billed
  <2> QED BY <2>1, UsageAssumption, FS_Subset
<1>2. ASSUME NEW j \in billed PROVE MinutesOf(j, time) \in Nat
  <2> DEFINE ended == IF ciJobs[j].ended = Unset THEN time ELSE ciJobs[j].ended
             started == ciJobs[j].started
  <2>1. started \in Nat /\ ended \in Nat /\ started <= ended
    BY DEF JobsStand, UsageShape
  <2>2. MinutesOf(j, time) = IF ended = started THEN 1 ELSE ended - started
    BY DEF MinutesOf
  <2> HIDE DEF ended, started
  <2> QED BY <2>1, <2>2
<1>3. ciMinutes(c, month) = MapThenSumSet(LAMBDA j : MinutesOf(j, time), billed)
  BY DEF ciMinutes
<1> HIDE DEF billed
<1>4. MapThenSumSet(LAMBDA j : MinutesOf(j, time), billed) \in Nat
  BY <1>1, <1>2, SumIsANumber
<1> QED BY <1>3, <1>4

\* The uploads of a process are among what is held, and it remembers no less.
Mine(p, c) == {o \in LfsOids : uploads[c][o] = p}

LEMMA MineAreHeld ==
  ASSUME UsageShape, NEW p \in Meters, NEW c \in Customers
  PROVE  IsFiniteSet(Mine(p, c)) /\ Cardinality(Mine(p, c)) \in Nat /\ Cardinality(Mine(p, c)) <= Cardinality(HeldBy(c))
<1>1. Mine(p, c) \in SUBSET HeldBy(c)
  BY UsageAssumption DEF Mine, HeldBy
<1>2. IsFiniteSet(HeldBy(c))
  BY Measured
<1>3. IsFiniteSet(Mine(p, c)) /\ Cardinality(Mine(p, c)) <= Cardinality(HeldBy(c))
  BY <1>1, <1>2, FS_Subset
<1> QED BY <1>3, FS_CardinalityType

\* It keeps seeing them if none is added that it remembers nothing less of.
LEMMA UploadsSeen ==
  ASSUME UsageInv, UsageShape',
         \A p \in Meters, c \in Customers :
           standing'[p][c] # Unread =>
             \/ standing'[p][c] = standing[p][c] /\ Mine(p, c)' \subseteq Mine(p, c)
             \/ standing'[p][c] = StorageOf(p, c) /\ uploads' = uploads
  PROVE  SeesItsUploads'
<1> SUFFICES ASSUME NEW p \in Meters, NEW c \in Customers, standing'[p][c] # Unread
             PROVE  Cardinality(Mine(p, c)') <= standing'[p][c]
  BY DEF SeesItsUploads, Mine
<1>0. UsageShape /\ IsFiniteSet(Mine(p, c)) /\ Cardinality(Mine(p, c)) \in Nat
  BY MineAreHeld DEF UsageInv
<1>1. CASE standing'[p][c] = standing[p][c] /\ Mine(p, c)' \subseteq Mine(p, c)
  <2>1. Cardinality(Mine(p, c)') <= Cardinality(Mine(p, c)) /\ IsFiniteSet(Mine(p, c)')
    BY <1>0, <1>1, FS_Subset
  <2>2. Cardinality(Mine(p, c)') \in Nat
    BY <2>1, FS_CardinalityType
  <2>3. Cardinality(Mine(p, c)) <= standing[p][c]
    BY <1>1 DEF UsageInv, SeesItsUploads, Mine
  <2>4. standing[p][c] \in Nat
    BY <1>0, <1>1 DEF UsageShape
  <2> QED BY <1>0, <1>1, <2>1, <2>2, <2>3, <2>4
<1>2. CASE standing'[p][c] = StorageOf(p, c) /\ uploads' = uploads
  <2>1. Mine(p, c)' = Mine(p, c)
    BY <1>2 DEF Mine
  <2> QED BY <1>0, <1>2, <2>1, Measured, MineAreHeld
<1> QED BY <1>1, <1>2

\* The months that were closed stand if no reading of theirs is added or goes.
LEMMA MonthsStand ==
  ASSUME ClosedMonthsStand, periods' = periods, billingPeriod(time)' >= billingPeriod(time),
         billingPeriod(time) \in Nat, billingPeriod(time)' \in Nat, \A k \in DOMAIN periods : k[2] \in Nat,
         \A k \in DOMAIN periods : k[1] \in Present',
         samples \subseteq samples', \A s \in samples' \ samples : s.month = billingPeriod(time)
  PROVE  ClosedMonthsStand'
<1> SUFFICES ASSUME NEW k \in DOMAIN periods
             PROVE  LET readings == {s \in samples' : s.of = k[1] /\ s.month = k[2]}
                    IN  /\ k[1] \in Present' /\ k[2] < billingPeriod(time)'
                        /\ periods[k].samples = Cardinality(readings)
                        /\ Billable(periods[k]) =>
                             /\ \A s \in readings : s.bytes <= periods[k].peak /\ s.minutes <= periods[k].minutes
                             /\ \E s \in readings : s.bytes = periods[k].peak
                             /\ \E s \in readings : s.bytes = periods[k].last /\ \A other \in readings : other.n <= s.n
  BY DEF ClosedMonthsStand, Billable
<1> DEFINE before == {s \in samples : s.of = k[1] /\ s.month = k[2]}
           after  == {s \in samples' : s.of = k[1] /\ s.month = k[2]}
<1>1. k[2] < billingPeriod(time)
  BY DEF ClosedMonthsStand
<1>2. after = before
  BY <1>1
<1>3. /\ periods[k].samples = Cardinality(before)
      /\ Billable(periods[k]) =>
           /\ \A s \in before : s.bytes <= periods[k].peak /\ s.minutes <= periods[k].minutes
           /\ \E s \in before : s.bytes = periods[k].peak
           /\ \E s \in before : s.bytes = periods[k].last /\ \A other \in before : other.n <= s.n
  BY DEF ClosedMonthsStand
<1>4. k[1] \in Present' /\ k[2] < billingPeriod(time)'
  BY <1>1
<1> QED BY <1>2, <1>3, <1>4

PeriodsAre == \A k \in DOMAIN periods : k[2] \in Nat

LEMMA PeriodGrows ==
  ASSUME NEW t \in Nat
  PROVE  billingPeriod(t) \in Nat /\ billingPeriod(t) <= billingPeriod(t + 1)
BY UsageAssumption DEF billingPeriod

\* The steps of jobs, caches and uploads: nothing is read, closed or deleted.
LEMMA ReadingsStay ==
  ASSUME UsageInv, PeriodsAre, UNCHANGED <<samples, periods>>, time' \in {time, time + 1}, UsageShape', JobsStand',
         Present \subseteq Present',
         \A p \in Meters, c \in Customers :
           standing'[p][c] # Unread =>
             \/ standing'[p][c] = standing[p][c] /\ Mine(p, c)' \subseteq Mine(p, c)
             \/ standing'[p][c] = StorageOf(p, c) /\ uploads' = uploads
  PROVE  UsageInv' /\ PeriodsAre'
<1>1. ReadingsStand' /\ PeriodsAre'
  BY DEF UsageInv, ReadingsStand, PeriodsAre
<1>2. SeesItsUploads'
  BY UploadsSeen
<1>3. billingPeriod(time) \in Nat /\ billingPeriod(time)' \in Nat /\ billingPeriod(time)' >= billingPeriod(time)
  <2>1. time \in Nat /\ time + 1 \in Nat
    BY DEF UsageInv, UsageShape
  <2>2. /\ billingPeriod(time) \in Nat /\ billingPeriod(time + 1) \in Nat
        /\ billingPeriod(time) <= billingPeriod(time + 1)
    BY <2>1, PeriodGrows
  <2>3. billingPeriod(time)' \in {billingPeriod(time), billingPeriod(time + 1)}
    BY DEF billingPeriod
  <2> QED BY <2>2, <2>3
<1>4. \A k \in DOMAIN periods : k[2] \in Nat /\ k[1] \in Present'
  BY DEF PeriodsAre, UsageInv, ClosedMonthsStand
<1>5. ClosedMonthsStand'
  BY <1>3, <1>4, MonthsStand DEF UsageInv
<1> QED BY <1>1, <1>2, <1>5 DEF UsageInv

\* What a process remembers after one more look, or one thing forgotten.
LEMMA ForgottenKeeps ==
  ASSUME UsageShape, JobsStand, NEW c \in Customers, Forgotten(c), time' = time
  PROVE  /\ packs' \in [Customers -> Nat] /\ uploads' \in [Customers -> [LfsOids -> Meters \cup {Unset, Attached}]]
         /\ JobsStand'
         /\ \A p \in Meters, d \in Customers : Mine(p, d)' \subseteq Mine(p, d)
<1>1. packs' \in [Customers -> Nat]
  BY DEF Forgotten, UsageShape
<1>2. uploads' \in [Customers -> [LfsOids -> Meters \cup {Unset, Attached}]]
  BY DEF Forgotten, UsageShape, NoUpload
<1>3. JobsStand'
  BY DEF Forgotten, JobsStand
<1>4. \A p \in Meters, d \in Customers : Mine(p, d)' \subseteq Mine(p, d)
  <2> SUFFICES ASSUME NEW p \in Meters, NEW d \in Customers, NEW o \in LfsOids, uploads'[d][o] = p
               PROVE  uploads[d][o] = p
    BY DEF Mine
  <2>1. CASE d = c
    <3>1. uploads'[c][o] = Unset
      BY DEF Forgotten, UsageShape, NoUpload
    <3> QED BY <2>1, <3>1, UsageAssumption
  <2>2. CASE d # c
    BY <2>2 DEF Forgotten, UsageShape
  <2> QED BY <2>1, <2>2
<1> QED BY <1>1, <1>2, <1>3, <1>4

LEMMA DirectoryKeeps ==
  ASSUME UsageShape, NEW c \in Customers, DirectoryChanges(c)
  PROVE  sizes' \in [Meters -> [Customers -> Nat \cup {Unread}]]
BY DEF UsageShape, DirectoryChanges

LEMMA ConcatIs ==
  ASSUME NEW T, NEW a \in Seq(T), NEW b \in Seq(T)
  PROVE  /\ a \o b \in Seq(T) /\ Len(a \o b) = Len(a) + Len(b) /\ Len(a) \in Nat /\ Len(b) \in Nat
         /\ \A k \in 1 .. Len(a) : (a \o b)[k] = a[k]
         /\ \A k \in 1 .. Len(b) : (a \o b)[Len(a) + k] = b[k]
OBVIOUS

\* What is left of a sequence is everything but one.
LEMMA RestIs ==
  ASSUME NEW T, NEW s \in Seq(T), NEW i \in 1 .. Len(s)
  PROVE  /\ RemoveAt(s, i) \in Seq(T)
         /\ \A k \in 1 .. Len(s) : k # i => s[k] \in ToSet(RemoveAt(s, i))
<1> DEFINE n == Len(s)
           front == SubSeq(s, 1, i - 1)
           back  == SubSeq(s, i + 1, n)
<1>0. n \in Nat /\ i \in 1 .. n
  OBVIOUS
<1>1. /\ front \in Seq(T) /\ Len(front) = i - 1 /\ \A k \in 1 .. i - 1 : front[k] = s[k]
      /\ back \in Seq(T) /\ Len(back) = n - i /\ \A k \in 1 .. n - i : back[k] = s[k + i]
  OBVIOUS
<1>2. RemoveAt(s, i) = front \o back
  BY DEF RemoveAt
<1> HIDE DEF front, back, n
<1>3. /\ RemoveAt(s, i) \in Seq(T) /\ Len(RemoveAt(s, i)) = (i - 1) + (n - i)
      /\ \A k \in 1 .. i - 1 : RemoveAt(s, i)[k] = s[k]
      /\ \A k \in 1 .. n - i : RemoveAt(s, i)[(i - 1) + k] = s[k + i]
  <2>1. /\ front \o back \in Seq(T) /\ Len(front \o back) = Len(front) + Len(back)
        /\ \A k \in 1 .. Len(front) : (front \o back)[k] = front[k]
        /\ \A k \in 1 .. Len(back) : (front \o back)[Len(front) + k] = back[k]
    <3>1. \A a, b \in Seq(T) :
            /\ a \o b \in Seq(T) /\ Len(a \o b) = Len(a) + Len(b)
            /\ \A k \in 1 .. Len(a) : (a \o b)[k] = a[k]
            /\ \A k \in 1 .. Len(b) : (a \o b)[Len(a) + k] = b[k]
      BY ConcatIs
    <3> QED BY <1>1, <3>1, Zenon
  <2> QED BY <1>0, <1>1, <1>2, <2>1
<1>4. Len(RemoveAt(s, i)) = n - 1 /\ DOMAIN RemoveAt(s, i) = 1 .. n - 1
  BY <1>0, <1>3
<1>5. ASSUME NEW k \in 1 .. n, k # i PROVE \E l \in 1 .. n - 1 : RemoveAt(s, i)[l] = s[k]
  <2>1. CASE k < i
    <3>1. k \in 1 .. i - 1 /\ k \in 1 .. n - 1
      BY <1>0, <2>1
    <3> QED BY <1>3, <3>1
  <2>2. CASE k > i
    <3>1. k - i \in 1 .. n - i /\ (k - i) + i = k /\ (i - 1) + (k - i) \in 1 .. n - 1
      BY <1>0, <2>2
    <3> QED BY <1>3, <3>1
  <2> QED BY <1>0, <1>5, <2>1, <2>2
<1>6. \A k \in 1 .. n : k # i => s[k] \in ToSet(RemoveAt(s, i))
  BY <1>4, <1>5 DEF ToSet
<1> QED BY <1>3, <1>6 DEF n

LEMMA DeleteKeeps ==
  ASSUME UsageInv, PeriodsAre, NEW c \in Customers, DeleteCustomer(c)
  PROVE  UsageInv' /\ PeriodsAre'
<1>0. UsageShape /\ JobsStand /\ ReadingsStand /\ ClosedMonthsStand
  BY DEF UsageInv
<1>1. /\ packs' \in [Customers -> Nat] /\ uploads' \in [Customers -> [LfsOids -> Meters \cup {Unset, Attached}]]
      /\ JobsStand' /\ \A p \in Meters, d \in Customers : Mine(p, d)' \subseteq Mine(p, d)
  BY <1>0, ForgottenKeeps DEF DeleteCustomer
<1>2. sizes' \in [Meters -> [Customers -> Nat \cup {Unread}]]
  BY <1>0, DirectoryKeeps DEF DeleteCustomer
<1>3. /\ standing' \in [Meters -> [Customers -> Nat \cup {Unread}]]
      /\ \A p \in Meters, d \in Customers : standing'[p][d] # Unread => standing'[p][d] = standing[p][d]
  BY <1>0 DEF DeleteCustomer, UsageShape
<1>6. customers' \in Seq(Customers) /\ \A d \in Present : d # c => d \in Present'
  <2> DEFINE i == CHOOSE n \in DOMAIN customers : customers[n] = c
  <2>1. customers \in Seq(Customers) /\ DOMAIN customers = 1 .. Len(customers)
    BY <1>0 DEF UsageShape
  <2>2. \E n \in DOMAIN customers : customers[n] = c
    BY DEF DeleteCustomer, Present, ToSet
  <2>3. i \in 1 .. Len(customers) /\ customers[i] = c
    BY <2>1, <2>2
  <2>4. customers' = RemoveAt(customers, i)
    BY DEF DeleteCustomer
  <2> HIDE DEF i
  <2>5. /\ customers' \in Seq(Customers)
        /\ \A k \in 1 .. Len(customers) : k # i => customers[k] \in Present'
    BY <2>1, <2>3, <2>4, RestIs DEF Present
  <2>6. Present = {customers[k] : k \in 1 .. Len(customers)}
    BY <2>1 DEF Present, ToSet
  <2> QED BY <2>3, <2>5, <2>6
<1>7. UsageShape'
  BY <1>0, <1>1, <1>2, <1>3, <1>6 DEF UsageShape, DeleteCustomer
<1>8. SeesItsUploads'
  BY <1>1, <1>3, <1>7, UploadsSeen
<1>9. samples' = {s \in samples : s.of # c} /\ time' = time
      /\ DOMAIN periods' = {l \in DOMAIN periods : l[1] # c} /\ \A k \in DOMAIN periods' : periods'[k] = periods[k]
  BY DEF DeleteCustomer
<1>10. ReadingsStand' /\ PeriodsAre'
  <2>1. samples' \in SUBSET samples
    BY <1>9
  <2>2. IsFiniteSet(samples')
    BY <1>0, <2>1, FS_Subset DEF ReadingsStand
  <2> QED BY <1>0, <1>9, <2>1, <2>2 DEF ReadingsStand, PeriodsAre
<1>11. ClosedMonthsStand'
  <2> SUFFICES ASSUME NEW k \in DOMAIN periods'
               PROVE  LET readings == {s \in samples' : s.of = k[1] /\ s.month = k[2]}
                      IN  /\ k[1] \in Present' /\ k[2] < billingPeriod(time)'
                          /\ periods'[k].samples = Cardinality(readings)
                          /\ Billable(periods[k])' =>
                               /\ \A s \in readings : s.bytes <= periods'[k].peak /\ s.minutes <= periods'[k].minutes
                               /\ \E s \in readings : s.bytes = periods'[k].peak
                               /\ \E s \in readings : s.bytes = periods'[k].last /\ \A other \in readings : other.n <= s.n
    BY DEF ClosedMonthsStand
  <2> DEFINE before == {s \in samples : s.of = k[1] /\ s.month = k[2]}
             after  == {s \in samples' : s.of = k[1] /\ s.month = k[2]}
  <2>1. k \in DOMAIN periods /\ k[1] # c /\ periods'[k] = periods[k]
    BY <1>9
  <2>2. after = before
    BY <1>9, <2>1
  <2>3. /\ k[1] \in Present /\ k[2] < billingPeriod(time) /\ periods[k].samples = Cardinality(before)
        /\ Billable(periods[k]) =>
             /\ \A s \in before : s.bytes <= periods[k].peak /\ s.minutes <= periods[k].minutes
             /\ \E s \in before : s.bytes = periods[k].peak
             /\ \E s \in before : s.bytes = periods[k].last /\ \A other \in before : other.n <= s.n
    BY <1>0, <2>1 DEF ClosedMonthsStand
  <2>4. k[1] \in Present' /\ k[2] < billingPeriod(time)' /\ (Billable(periods[k])' <=> Billable(periods[k]))
    BY <1>6, <1>9, <2>1, <2>3 DEF Billable
  <2> HIDE DEF before, after
  <2> QED BY <2>1, <2>2, <2>3, <2>4 DEF before, after
<1> QED BY <1>1, <1>7, <1>8, <1>10, <1>11 DEF UsageInv

LEMMA SampleKeeps ==
  ASSUME UsageInv, PeriodsAre, NEW p \in Meters, sampleUsage(p)
  PROVE  UsageInv' /\ PeriodsAre'
<1>0. UsageShape /\ JobsStand /\ ReadingsStand /\ ClosedMonthsStand
  BY DEF UsageInv
<1>1. UNCHANGED <<time, customers, packs, uploads, offered, ciJobs, standing, periods>>
  BY DEF sampleUsage
<1>2. Swept \in Seq(Customers) /\ Len(Swept) \in Nat /\ DOMAIN Swept = 1 .. Len(Swept)
  <2> DEFINE m == IF Len(customers) < SampleLimit THEN Len(customers) ELSE SampleLimit
  <2>1. customers \in Seq(Customers) /\ Len(customers) \in Nat
    BY <1>0 DEF UsageShape
  <2>2. m \in Nat /\ m <= Len(customers)
    BY <2>1, UsageAssumption
  <2>3. Swept = SubSeq(customers, 1, m)
    BY DEF Swept
  <2> HIDE DEF m
  <2>4. Swept \in Seq(Customers)
    BY <2>1, <2>2, <2>3
  <2> QED BY <2>4
<1>3. ToSet(Swept) \subseteq Customers /\ ToSet(Swept) = {Swept[i] : i \in 1 .. Len(Swept)}
  BY <1>2 DEF ToSet
<1> DEFINE new == {Reading(p, c) : c \in ToSet(Swept)}
<1>4. samples' = samples \cup new
  BY DEF sampleUsage
<1>5. IsFiniteSet(new)
  <2> DEFINE g == [i \in 1 .. Len(Swept) |-> Reading(p, Swept[i])]
  <2>1. g \in [1 .. Len(Swept) -> new]
    BY <1>3
  <2>2. \A r \in new : \E i \in 1 .. Len(Swept) : g[i] = r
    BY <1>3
  <2>3. IsFiniteSet(1 .. Len(Swept))
    BY <1>2, FS_Interval
  <2> HIDE DEF g, new
  <2>4. g \in Surjection(1 .. Len(Swept), new)
    BY <2>1, <2>2 DEF Surjection
  <2> QED BY <2>3, <2>4, FS_Surjection
<1>6. \A r \in new : r.n \in Nat /\ r.bytes \in Nat /\ r.minutes \in Nat /\ r.month = billingPeriod(time)
  <2> SUFFICES ASSUME NEW c \in ToSet(Swept), NEW r, r = Reading(p, c)
               PROVE  r.n \in Nat /\ r.bytes \in Nat /\ r.minutes \in Nat /\ r.month = billingPeriod(time)
    OBVIOUS
  <2>1. c \in Customers
    BY <1>3
  <2>2. Cardinality({s \in samples : s.of = c}) \in Nat
    <3>1. {s \in samples : s.of = c} \in SUBSET samples
      OBVIOUS
    <3> QED BY <1>0, <3>1, FS_Subset, FS_CardinalityType DEF ReadingsStand
  <2>3. organizationUsage(p, c).bytes \in Nat
    BY <1>0, <2>1, Measured DEF organizationUsage
  <2>4. organizationUsage(p, c).minutes \in Nat
    BY <1>0, <2>1, MinutesAreNumbers DEF organizationUsage
  <2> QED BY <2>2, <2>3, <2>4 DEF Reading
<1> HIDE DEF new
<1>7. ReadingsStand'
  <2>1. IsFiniteSet(samples')
    BY <1>0, <1>4, <1>5, FS_Union DEF ReadingsStand
  <2> QED BY <1>0, <1>4, <1>6, <2>1 DEF ReadingsStand
<1>8. UsageShape' /\ JobsStand' /\ PeriodsAre'
  <2>1. \A c \in Customers : repositoryGitBytes(p, c) \in Nat
    BY <1>0, Measured
  <2>2. sizes' \in [Meters -> [Customers -> Nat \cup {Unread}]]
    <3> DEFINE row == [c \in Customers |-> IF c \in ToSet(Swept) THEN repositoryGitBytes(p, c) ELSE sizes[p][c]]
    <3>1. sizes' = [sizes EXCEPT ![p] = row]
      BY DEF sampleUsage
    <3>2. row \in [Customers -> Nat \cup {Unread}]
      BY <1>0, <2>1 DEF UsageShape
    <3> HIDE DEF row
    <3> QED BY <1>0, <3>1, <3>2 DEF UsageShape
  <2> QED BY <1>0, <1>1, <2>2 DEF UsageShape, JobsStand, PeriodsAre
<1>9. SeesItsUploads'
  BY <1>1, <1>8, UploadsSeen DEF Mine
<1>10. ClosedMonthsStand'
  <2>1. billingPeriod(time) \in Nat /\ billingPeriod(time)' = billingPeriod(time)
    BY <1>0, <1>1, PeriodGrows DEF UsageShape
  <2>2. \A k \in DOMAIN periods : k[2] \in Nat /\ k[1] \in Present'
    BY <1>0, <1>1 DEF PeriodsAre, ClosedMonthsStand, Present
  <2>3. samples \subseteq samples' /\ \A s \in samples' \ samples : s.month = billingPeriod(time)
    BY <1>4, <1>6
  <2> QED BY <1>0, <1>1, <2>1, <2>2, <2>3, MonthsStand
<1> QED BY <1>7, <1>8, <1>9, <1>10 DEF UsageInv

\* What is recorded for a month that was sampled are the greatest and the last of its readings.
LEMMA FiguresAre ==
  ASSUME ReadingsStand, NEW c, NEW month, SamplesOf(c, month) # {}
  PROVE  LET taken == SamplesOf(c, month)
             figures == FiguresOf(c, month)
         IN  /\ figures.samples = Cardinality(taken)
             /\ \A s \in taken : s.bytes <= figures.peak /\ s.minutes <= figures.minutes
             /\ \E s \in taken : s.bytes = figures.peak
             /\ \E s \in taken : s.bytes = figures.last /\ \A other \in taken : other.n <= s.n
<1> DEFINE taken == SamplesOf(c, month)
<1>0. IsFiniteSet(taken) /\ taken # {} /\ \A s \in taken : s.n \in Nat /\ s.bytes \in Nat /\ s.minutes \in Nat
  <2>1. taken \in SUBSET samples
    BY DEF SamplesOf
  <2>2. IsFiniteSet(taken)
    BY <2>1, FS_Subset DEF ReadingsStand
  <2> QED BY <2>1, <2>2 DEF ReadingsStand
<1>1. FiguresOf(c, month) = [peak    |-> Max({s.bytes : s \in taken}),
                             last    |-> (CHOOSE s \in taken : \A other \in taken : other.n <= s.n).bytes,
                             minutes |-> Max({s.minutes : s \in taken}),
                             samples |-> Cardinality(taken)]
  BY DEF FiguresOf
<1> HIDE DEF taken
<1>2. /\ Max({s.bytes : s \in taken}) \in {s.bytes : s \in taken}
      /\ \A s \in taken : s.bytes <= Max({s2.bytes : s2 \in taken})
  <2> DEFINE g == [s \in taken |-> s.bytes]
  <2>1. g \in [taken -> Nat] /\ \A s \in taken : g[s] = s.bytes
    BY <1>0
  <2> HIDE DEF g
  <2>2. PICK s \in taken : \A t \in taken : t.bytes <= s.bytes
    BY <1>0, <2>1, GreatestOf
  <2>3. \E x \in {t.bytes : t \in taken} : \A y \in {t.bytes : t \in taken} : x >= y
    BY <1>0, <2>2
  <2> QED BY <1>0, <2>3 DEF Max
<1>3. \A s \in taken : s.minutes <= Max({s2.minutes : s2 \in taken})
  <2> DEFINE g == [s \in taken |-> s.minutes]
  <2>1. g \in [taken -> Nat] /\ \A s \in taken : g[s] = s.minutes
    BY <1>0
  <2> HIDE DEF g
  <2>2. PICK s \in taken : \A t \in taken : t.minutes <= s.minutes
    BY <1>0, <2>1, GreatestOf
  <2>3. \E x \in {t.minutes : t \in taken} : \A y \in {t.minutes : t \in taken} : x >= y
    BY <1>0, <2>2
  <2> QED BY <1>0, <2>3 DEF Max
<1> DEFINE end == CHOOSE s \in taken : \A other \in taken : other.n <= s.n
<1>4. end \in taken /\ \A other \in taken : other.n <= end.n
  <2> DEFINE g == [s \in taken |-> s.n]
  <2>1. g \in [taken -> Nat] /\ \A s \in taken : g[s] = s.n
    BY <1>0
  <2> HIDE DEF g
  <2>2. \E s \in taken : \A t \in taken : t.n <= s.n
    BY <1>0, <2>1, GreatestOf
  <2> QED BY <2>2
<1>5. FiguresOf(c, month).last = end.bytes
  BY <1>1
<1> HIDE DEF end
<1>6. /\ FiguresOf(c, month).samples = Cardinality(taken) /\ FiguresOf(c, month).peak = Max({s.bytes : s \in taken})
      /\ FiguresOf(c, month).minutes = Max({s.minutes : s \in taken})
  BY <1>1
<1>7. /\ FiguresOf(c, month).samples = Cardinality(taken)
      /\ \A s \in taken : s.bytes <= FiguresOf(c, month).peak /\ s.minutes <= FiguresOf(c, month).minutes
      /\ \E s \in taken : s.bytes = FiguresOf(c, month).peak
      /\ \E s \in taken : s.bytes = FiguresOf(c, month).last /\ \A other \in taken : other.n <= s.n
  BY <1>2, <1>3, <1>4, <1>5, <1>6
<1> QED BY <1>7 DEF taken

LEMMA CloseKeeps ==
  ASSUME UsageInv, PeriodsAre, closePeriod
  PROVE  UsageInv' /\ PeriodsAre'
<1>0. UsageShape /\ JobsStand /\ ReadingsStand /\ ClosedMonthsStand
  BY DEF UsageInv
<1> DEFINE month == previousPeriod(time)
           due   == {<<c, month>> : c \in ToSet(Swept)} \ DOMAIN periods
<1>1. /\ UNCHANGED <<time, customers, packs, uploads, offered, ciJobs, sizes, standing, samples>>
      /\ billingPeriod(time) > 0 /\ DOMAIN periods' = DOMAIN periods \cup due
      /\ \A k \in DOMAIN periods : periods'[k] = periods[k]
      /\ \A k \in due : periods'[k] = FiguresOf(k[1], k[2])
  BY DEF closePeriod
<1>2. billingPeriod(time) \in Nat /\ month \in Nat /\ month < billingPeriod(time)
  <2>1. billingPeriod(time) \in Nat
    BY <1>0, PeriodGrows DEF UsageShape
  <2> QED BY <1>1, <2>1 DEF previousPeriod
<1>3. ToSet(Swept) \subseteq Present
  <2> DEFINE m == IF Len(customers) < SampleLimit THEN Len(customers) ELSE SampleLimit
  <2>1. customers \in Seq(Customers) /\ Len(customers) \in Nat
    BY <1>0 DEF UsageShape
  <2>2. m \in Nat /\ m <= Len(customers) /\ Swept = SubSeq(customers, 1, m)
    BY <2>1, UsageAssumption DEF Swept
  <2> HIDE DEF m
  <2>3. DOMAIN Swept = 1 .. m /\ \A i \in 1 .. m : Swept[i] = customers[i]
    BY <2>1, <2>2
  <2> QED BY <2>1, <2>2, <2>3 DEF ToSet, Present
<1> HIDE DEF month
<1>4. \A k \in due : k[1] \in Present /\ k[2] = month
  BY <1>3
<1> HIDE DEF due
<1>5. UsageShape' /\ JobsStand' /\ ReadingsStand' /\ PeriodsAre'
  BY <1>0, <1>1, <1>2, <1>4 DEF UsageShape, JobsStand, ReadingsStand, PeriodsAre
<1>6. SeesItsUploads'
  BY <1>1, <1>5, UploadsSeen DEF Mine
<1>7. ClosedMonthsStand'
  <2> SUFFICES ASSUME NEW k \in DOMAIN periods'
               PROVE  LET readings == {s \in samples : s.of = k[1] /\ s.month = k[2]}
                      IN  /\ k[1] \in Present /\ k[2] < billingPeriod(time)
                          /\ periods'[k].samples = Cardinality(readings)
                          /\ periods'[k].samples > 0 =>
                               /\ \A s \in readings : s.bytes <= periods'[k].peak /\ s.minutes <= periods'[k].minutes
                               /\ \E s \in readings : s.bytes = periods'[k].peak
                               /\ \E s \in readings : s.bytes = periods'[k].last /\ \A other \in readings : other.n <= s.n
    BY <1>1 DEF ClosedMonthsStand, Present, Billable
  <2>1. CASE k \in DOMAIN periods
    BY <1>0, <1>1, <2>1 DEF ClosedMonthsStand, Billable
  <2>2. CASE k \in due
    <3>1. k[1] \in Present /\ k[2] < billingPeriod(time) /\ periods'[k] = FiguresOf(k[1], k[2])
      BY <1>1, <1>2, <1>4, <2>2
    <3>2. SamplesOf(k[1], k[2]) = {s \in samples : s.of = k[1] /\ s.month = k[2]}
      BY DEF SamplesOf
    <3>3. CASE SamplesOf(k[1], k[2]) = {}
      <4>1. FiguresOf(k[1], k[2]).samples = 0
        BY <3>3 DEF FiguresOf
      <4>2. Cardinality(SamplesOf(k[1], k[2])) = 0
        BY <3>3, FS_EmptySet
      <4> QED BY <3>1, <3>2, <4>1, <4>2
    <3>4. CASE SamplesOf(k[1], k[2]) # {}
      <4> DEFINE taken == SamplesOf(k[1], k[2])
                 figures == FiguresOf(k[1], k[2])
      <4>1. /\ figures.samples = Cardinality(taken)
            /\ \A s \in taken : s.bytes <= figures.peak /\ s.minutes <= figures.minutes
            /\ \E s \in taken : s.bytes = figures.peak
            /\ \E s \in taken : s.bytes = figures.last /\ \A other \in taken : other.n <= s.n
        BY <1>0, <3>4, FiguresAre
      <4> HIDE DEF taken, figures
      <4>2. taken = {s \in samples : s.of = k[1] /\ s.month = k[2]} /\ periods'[k] = figures
        BY <3>1, <3>2 DEF taken, figures
      <4> QED BY <3>1, <4>1, <4>2
    <3> QED BY <3>3, <3>4
  <2> QED BY <1>1, <2>1, <2>2
<1> QED BY <1>5, <1>6, <1>7 DEF UsageInv

LEMMA UsageSteps == UsageInv /\ PeriodsAre /\ [UsageNext]_usageVars => UsageInv' /\ PeriodsAre'
<1> SUFFICES ASSUME UsageInv, PeriodsAre, [UsageNext]_usageVars PROVE UsageInv' /\ PeriodsAre'
  OBVIOUS
<1>0. UsageShape /\ JobsStand
  BY DEF UsageInv
<1> DEFINE Beside == /\ UNCHANGED <<samples, periods>> /\ time' \in {time, time + 1} /\ UsageShape' /\ JobsStand'
                     /\ Present \subseteq Present'
           Still == \A q \in Meters, d \in Customers :
                      standing'[q][d] # Unread => standing'[q][d] = standing[q][d] /\ Mine(q, d)' \subseteq Mine(q, d)
<1>a. Beside /\ Still => UsageInv' /\ PeriodsAre'
  BY ReadingsStay
<1>1. CASE TimePasses
  <2>1. Beside
    BY <1>0, <1>1 DEF TimePasses, Metered, UsageShape, JobsStand, Present
  <2>2. Still
    BY <1>1 DEF TimePasses, Metered, Mine
  <2> QED BY <1>a, <2>1, <2>2
<1>2. ASSUME NEW c \in Customers, CreateCustomer(c) PROVE Beside /\ Still
  <2>1. customers' = Append(customers, c) /\ customers \in Seq(Customers)
    BY <1>0, <1>2 DEF CreateCustomer, UsageShape
  <2>2. /\ customers' \in Seq(Customers) /\ DOMAIN customers = 1 .. Len(customers) /\ Len(customers) \in Nat
        /\ DOMAIN customers' = 1 .. Len(customers) + 1 /\ \A i \in 1 .. Len(customers) : customers'[i] = customers[i]
    BY <2>1
  <2>3. Present \subseteq Present'
    BY <2>2 DEF Present, ToSet
  <2>4. UsageShape' /\ JobsStand'
    BY <1>0, <1>2, <2>2 DEF CreateCustomer, Metered, UsageShape, JobsStand
  <2> QED BY <1>2, <2>3, <2>4 DEF CreateCustomer, Metered, Mine
<1>3. ASSUME NEW c \in Customers, RepositoryGone(c) PROVE Beside /\ Still
  <2>1. Forgotten(c) /\ DirectoryChanges(c) /\ UNCHANGED <<time, customers, standing, samples, periods>>
    BY <1>3 DEF RepositoryGone
  <2>2. /\ packs' \in [Customers -> Nat] /\ uploads' \in [Customers -> [LfsOids -> Meters \cup {Unset, Attached}]]
        /\ JobsStand' /\ \A p \in Meters, d \in Customers : Mine(p, d)' \subseteq Mine(p, d)
    BY <1>0, <2>1, ForgottenKeeps
  <2>3. sizes' \in [Meters -> [Customers -> Nat \cup {Unread}]]
    BY <1>0, <2>1, DirectoryKeeps
  <2> QED BY <1>0, <2>1, <2>2, <2>3 DEF UsageShape, Present
<1>4. ASSUME NEW c \in Customers, NEW shows \in BOOLEAN, Push(c, shows) PROVE Beside /\ Still
  <2>1. sizes' \in [Meters -> [Customers -> Nat \cup {Unread}]]
    BY <1>0, <1>4, DirectoryKeeps DEF Push, UsageShape
  <2>2. packs' \in [Customers -> Nat]
    BY <1>0, <1>4 DEF Push, UsageShape
  <2>3. UsageShape' /\ JobsStand'
    BY <1>0, <1>4, <2>1, <2>2 DEF Push, UsageShape, JobsStand
  <2> QED BY <1>4, <2>3 DEF Push, Present, Mine
<1>5. ASSUME NEW j \in CIJobs, NEW c \in Customers, StartCIJob(j, c) PROVE Beside /\ Still
  <2>1. JobsStand'
    BY <1>0, <1>5 DEF StartCIJob, JobsStand, UsageShape
  <2>2. UsageShape'
    BY <1>0, <1>5 DEF StartCIJob, Metered, UsageShape
  <2> QED BY <1>5, <2>1, <2>2 DEF StartCIJob, Metered, Present, Mine
<1>6. ASSUME NEW j \in CIJobs, EndCIJob(j) PROVE Beside /\ Still
  <2>1. JobsStand'
    <3>1. j \in DOMAIN ciJobs /\ ciJobs' = [ciJobs EXCEPT ![j].ended = time] /\ time' = time
      BY <1>6 DEF EndCIJob
    <3>2. DOMAIN ciJobs' = DOMAIN ciJobs /\ \A i \in DOMAIN ciJobs : i # j => ciJobs'[i] = ciJobs[i]
      BY <3>1
    <3>3. ciJobs[j] \in [of : Customers, started : Nat, ended : Nat \cup {Unset}] /\ ciJobs[j].started <= time /\ time \in Nat
      BY <1>0, <3>1 DEF JobsStand, UsageShape
    <3>4. ciJobs'[j] = [ciJobs[j] EXCEPT !.ended = time]
      BY <3>1
    <3>5. /\ ciJobs'[j] \in [of : Customers, started : Nat, ended : Nat \cup {Unset}]
          /\ ciJobs'[j].started = ciJobs[j].started /\ ciJobs'[j].ended = time
      BY <3>3, <3>4
    <3> QED BY <1>0, <3>1, <3>2, <3>3, <3>5 DEF JobsStand
  <2>2. UsageShape'
    BY <1>0, <1>6 DEF EndCIJob, Metered, UsageShape
  <2> QED BY <1>6, <2>1, <2>2 DEF EndCIJob, Metered, Present, Mine
<1>7. ASSUME NEW c \in Customers, NEW o \in LfsOids, AttachHeld(c, o) PROVE Beside /\ Still
  <2>1. uploads' = [uploads EXCEPT ![c][o] = Attached] /\ UNCHANGED <<time, customers, packs, ciJobs, sizes, standing, samples, periods>>
    BY <1>7 DEF AttachHeld, Metered
  <2>2. uploads' \in [Customers -> [LfsOids -> Meters \cup {Unset, Attached}]]
    BY <1>0, <2>1 DEF UsageShape
  <2>3. Beside
    BY <1>0, <2>1, <2>2 DEF UsageShape, JobsStand, Present
  <2>4. \A d \in Customers, e \in LfsOids : uploads'[d][e] \in {uploads[d][e], Attached}
    BY <1>0, <2>1 DEF UsageShape
  <2>5. \A q \in Meters, d \in Customers : Mine(q, d)' \subseteq Mine(q, d)
    BY <2>4, UsageAssumption DEF Mine
  <2> QED BY <2>1, <2>3, <2>5
<1>8. ASSUME NEW p \in Meters, NEW c \in Customers, NEW o \in LfsOids, assertWithinPlan(p, c, o)
      PROVE  UsageInv' /\ PeriodsAre'
  <2>1. planStanding(p, c) /\ UNCHANGED <<time, customers, packs, uploads, ciJobs, samples, periods>>
    BY <1>8 DEF assertWithinPlan
  <2>2. storageBytes(p, c) \in Nat /\ StorageOf(p, c) \in Nat /\ repositoryGitBytes(p, c) \in Nat
    BY <1>0, Measured DEF storageBytes, UsageShape
  <2>3. standing' \in [Meters -> [Customers -> Nat \cup {Unread}]]
    BY <1>0, <2>1, <2>2 DEF planStanding, UsageShape
  <2>4. sizes' \in [Meters -> [Customers -> Nat \cup {Unread}]]
    <3>1. sizes' = sizes \/ sizes' = [sizes EXCEPT ![p][c] = repositoryGitBytes(p, c)]
      BY <2>1 DEF planStanding, Walked
    <3> DEFINE size == repositoryGitBytes(p, c)
    <3>2. size \in Nat /\ sizes \in [Meters -> [Customers -> Nat \cup {Unread}]]
      BY <1>0, <2>2 DEF UsageShape
    <3> HIDE DEF size
    <3>3. [sizes[p] EXCEPT ![c] = size] \in [Customers -> Nat \cup {Unread}]
      BY <3>2
    <3>4. [sizes EXCEPT ![p] = [sizes[p] EXCEPT ![c] = size]] \in [Meters -> [Customers -> Nat \cup {Unread}]]
      BY <3>2, <3>3
    <3> QED BY <3>1, <3>2, <3>4 DEF size
  <2>5. Beside
    BY <1>0, <2>1, <2>3, <2>4 DEF UsageShape, JobsStand, Present
  <2>6. \A q \in Meters, d \in Customers :
          standing'[q][d] # Unread =>
            \/ standing'[q][d] = standing[q][d] /\ Mine(q, d)' \subseteq Mine(q, d)
            \/ standing'[q][d] = StorageOf(q, d) /\ uploads' = uploads
    <3> SUFFICES ASSUME NEW q \in Meters, NEW d \in Customers
                 PROVE  standing'[q][d] = standing[q][d] \/ standing'[q][d] = StorageOf(q, d)
      BY <2>1 DEF Mine
    <3>1. CASE q = p /\ d = c
      BY <1>0, <2>1, <3>1 DEF planStanding, UsageShape, storageBytes
    <3>2. CASE ~(q = p /\ d = c)
      BY <1>0, <2>1, <3>2 DEF planStanding, UsageShape
    <3> QED BY <3>1, <3>2
  <2> QED BY <2>5, <2>6, ReadingsStay
<1>9. ASSUME NEW p \in Meters, NEW c \in Customers, NEW o \in LfsOids, PutObject(p, c, o) PROVE Beside /\ Still
  <2>1. /\ uploads' = [uploads EXCEPT ![c][o] = p] /\ standing' = [standing EXCEPT ![p][c] = Unread]
        /\ UNCHANGED <<time, customers, packs, ciJobs, sizes, samples, periods>>
    BY <1>9 DEF PutObject, planUsageChanged
  <2>2. uploads' \in [Customers -> [LfsOids -> Meters \cup {Unset, Attached}]] /\ standing' \in [Meters -> [Customers -> Nat \cup {Unread}]]
    BY <1>0, <2>1 DEF UsageShape
  <2>3. Beside
    BY <1>0, <2>1, <2>2 DEF UsageShape, JobsStand, Present
  <2>4. Still
    <3> SUFFICES ASSUME NEW q \in Meters, NEW d \in Customers, standing'[q][d] # Unread
                 PROVE  standing'[q][d] = standing[q][d] /\ Mine(q, d)' \subseteq Mine(q, d)
      OBVIOUS
    <3>1. ~(q = p /\ d = c)
      BY <1>0, <2>1 DEF UsageShape
    <3>2. standing'[q][d] = standing[q][d]
      BY <1>0, <2>1, <3>1 DEF UsageShape
    <3>3. \A e \in LfsOids : uploads'[d][e] = uploads[d][e] \/ (d = c /\ uploads'[d][e] = p)
      BY <1>0, <2>1 DEF UsageShape
    <3>4. Mine(q, d)' \subseteq Mine(q, d)
      BY <3>1, <3>3 DEF Mine
    <3> QED BY <3>2, <3>4
  <2> QED BY <2>3, <2>4
<1>10. ASSUME NEW p \in Meters, NEW c \in Customers, MinutePasses(p, c) PROVE Beside /\ Still
  <2>1. standing' = [standing EXCEPT ![p][c] = Unread] /\ UNCHANGED <<time, customers, packs, uploads, ciJobs, sizes, samples, periods>>
    BY <1>10 DEF MinutePasses
  <2>2. /\ standing' \in [Meters -> [Customers -> Nat \cup {Unread}]]
        /\ \A q \in Meters, d \in Customers : standing'[q][d] # Unread => standing'[q][d] = standing[q][d]
    BY <1>0, <2>1 DEF UsageShape
  <2> QED BY <1>0, <2>1, <2>2 DEF UsageShape, JobsStand, Present, Mine
<1>11. ASSUME NEW p \in Meters, Restart(p) PROVE Beside /\ Still
  <2>1. /\ sizes' = [sizes EXCEPT ![p] = [c \in Customers |-> Unread]]
        /\ standing' = [standing EXCEPT ![p] = [c \in Customers |-> Unread]]
        /\ UNCHANGED <<time, customers, packs, uploads, ciJobs, samples, periods>>
    BY <1>11 DEF Restart
  <2>2. /\ standing' \in [Meters -> [Customers -> Nat \cup {Unread}]] /\ sizes' \in [Meters -> [Customers -> Nat \cup {Unread}]]
        /\ \A q \in Meters, d \in Customers : standing'[q][d] # Unread => standing'[q][d] = standing[q][d]
    BY <1>0, <2>1 DEF UsageShape
  <2> QED BY <1>0, <2>1, <2>2 DEF UsageShape, JobsStand, Present, Mine
<1>12. CASE UNCHANGED usageVars
  <2>1. Beside
    BY <1>0, <1>12 DEF usageVars, UsageShape, JobsStand, Present
  <2>2. Still
    BY <1>12 DEF usageVars, Mine
  <2> QED BY <1>a, <2>1, <2>2
<1> HIDE DEF Beside, Still
<1> QED
  BY <1>a, <1>1, <1>2, <1>3, <1>4, <1>5, <1>6, <1>7, <1>8, <1>9, <1>10, <1>11, <1>12, DeleteKeeps, SampleKeeps, CloseKeeps
  DEF UsageNext

\* A closed month stands on all the readings of it there will ever be, and no process forgets an
\* upload of its own when it judges the plan's limit (usage-history.mjs, plan-limits.mjs), for any
\* number of organizations, processes and jobs.
THEOREM UsageIsRightHolds == UsageSpec => []UsageIsRight
<1>1. UsageInit => UsageInv /\ PeriodsAre
  <2>1. UsageInit => PeriodsAre
    BY DEF UsageInit, PeriodsAre
  <2> QED BY <2>1, UsageStarts
<1>2. UsageInv => UsageIsRight
  BY DEF UsageInv, UsageIsRight
<1> QED BY <1>1, <1>2, UsageSteps, PTL DEF UsageSpec

=============================================================================

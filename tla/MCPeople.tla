------------------------------ MODULE MCPeople ------------------------------
(***************************************************************************)
(* People and their organizations: how they get into an account, what they *)
(* belong to and may reach, what they write and are told there, and what   *)
(* it adds up to on the bill.  Eight state spaces of their own checked by  *)
(* one run; the initial state decides which one moves.                     *)
(***************************************************************************)
EXTENDS SignIn, Identities, Access, Issues, Notifications, Usage, TLC

CONSTANTS
  somebody,       \* has an account at a provider, with the address a1
  m1, m2, n1, n2  \* members of the sets the states are symmetric in

VARIABLE part

identity == <<signInVars, identityVars, authKitVars>>
collaboration == <<memberVars, externalVars, issueVars, notifyVars, usageVars>>
allVars == <<identity, collaboration, part>>

MailOfSubjects == somebody :> "a1"
SeatsOfPlans   == "oA" :> 2 @@ "oB" :> 1
OtherForges    == {{[number |-> 1, label |-> "bug"], [number |-> 3, label |-> "bug"]},
                   {[number |-> 3, label |-> "bug"]}, {[number |-> 1, label |-> "bad!"]}}

Init ==
  /\ SignInInit /\ IdentitiesInit /\ AuthKitInit
  /\ MemberInit /\ ExternalInit /\ IssuesInit /\ NotifyInit /\ UsageInit
  /\ part \in {"sign-in", "identities", "authkit", "membership", "external", "issues",
               "notifications", "usage"}
  /\ part # "authkit" => window = 0
  /\ part # "notifications" => sweeper = "p1"
  /\ part # "external" => old = {}
  /\ \A p \in old : given[p] = LastDay

Next ==
  /\ UNCHANGED part
  /\ \/ /\ UNCHANGED collaboration
        /\ \/ part = "sign-in" /\ SignInNext /\ UNCHANGED <<identityVars, authKitVars>>
           \/ part = "identities" /\ IdentitiesNext /\ UNCHANGED <<signInVars, authKitVars>>
           \/ part = "authkit" /\ AuthKitNext /\ UNCHANGED <<signInVars, identityVars>>
     \/ /\ UNCHANGED identity
        /\ \/ /\ part = "membership" /\ MemberNext
              /\ UNCHANGED <<externalVars, issueVars, notifyVars, usageVars>>
           \/ /\ part = "external" /\ ExternalNext
              /\ UNCHANGED <<memberVars, issueVars, notifyVars, usageVars>>
           \/ /\ part = "issues" /\ IssuesNext
              /\ UNCHANGED <<memberVars, externalVars, notifyVars, usageVars>>
           \/ /\ part = "notifications" /\ NotifyNext
              /\ UNCHANGED <<memberVars, externalVars, issueVars, usageVars>>
           \/ /\ part = "usage" /\ UsageNext
              /\ UNCHANGED <<memberVars, externalVars, issueVars, notifyVars>>

Spec == Init /\ [][Next]_allVars

\* At most two of these at once: an external's request, an open review, the repository
\* in Trash, an archived grant, a grant from before.  An invitation to an organization
\* meets no support grant, no request that waits and nobody invited to the repository; a
\* support grant meets no late grant; one invited to the repository meets no request.
\* The months are closed while no upload waits.  At most two flows are under way, links
\* by mail and accounts cut short among them.  A socket's handshake meets another request in
\* the first tick.  A pull request is opened in the days before any reminder, with the
\* token alive and no delivery exhausted.
Affordable ==
  /\ "opened" \in done => left = TokenDays /\ alive /\ ~failing
  /\ Cardinality(admitted) + (IF review THEN 1 ELSE 0) + (IF trashed THEN 1 ELSE 0)
       + Cardinality(archive) + Cardinality(old) <= 2
  /\ support # {} => late = {} /\ guests = {}
  /\ support # {} \/ invited # {} \/ guests # {} \/ requested # {} => \A o \in Orgs2 : \A u \in Users : orgInvite[o][u] = 0
  /\ invited # {} => support = {} /\ requested = {} /\ late = {} /\ operators = Operators
  /\ guests # {} => operators = Operators
  /\ samples # {} => offered = {} /\ \A p \in Meters : standing[p] = [c \in Customers |-> Unread]
  /\ opening # {} => clock = 0 \/ \E r \in Requests : request[r] = Idle
  /\ Cardinality(states) + Cardinality(waiting) + Cardinality(token) + Cardinality(cut) <= 2

\* Requests, processes and identifiers of issues, and providers and repositories, are
\* interchangeable.
Symmetry == Permutations({m1, m2}) \cup Permutations({n1, n2})

-----------------------------------------------------------------------------
\* Whoever is in an account came by a way that is still, or was then, the owner's:
\* the factors of sign-in are spent once, an identity leads to the account whose
\* owner proved it, and a session lives as long as AuthKit vouches for it.
AccountsSound == SignInSound /\ IdentitiesSound /\ AuthKitSound

\* Issues, comments and marks stay within the repository they were written in, and
\* people are told what concerns them, once and while they may see it.
CollaborationSound == IssuesSound /\ ToldRight
=============================================================================

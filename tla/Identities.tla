----------------------------- MODULE Identities -----------------------------
(***************************************************************************)
(* The ways into an account: a password, the accounts of sign-in providers *)
(* linked to it, and a phone number (src/src/signup.mjs,                   *)
(* account-verification.mjs, user-identities.mjs, oauth-signin.mjs,        *)
(* oauth-api.mjs, phone-verification.mjs).                                 *)
(*                                                                         *)
(* An account is known by its address, which is unique.  A flow begins     *)
(* with a row of oauth_states, is claimed by the callback, waits for the   *)
(* provider and is then settled; a phone number waits for the keys of its  *)
(* token in the same way.  `proved` is a history variable: the addresses   *)
(* somebody has opened a link of, or a provider vouched for when it made   *)
(* the account.                                                            *)
(***************************************************************************)
EXTENDS Naturals, FiniteSets

CONSTANTS
  Addresses,  \* users.email
  Providers,  \* sign-in providers: GitHub, Google
  Subjects,   \* accounts at a provider; each has the address SubjectMail
  SubjectMail,
  Numbers,    \* phone numbers
  Uids,       \* what a phone number is known by at Firebase, new when it is registered again
  MaxFlows    \* bound: flows under way at once

ASSUME IdentitiesAssumption ==
  SubjectMail \in [Subjects -> Addresses] /\ MaxFlows \in Nat /\ "phone" \notin Providers

VARIABLES
  account,  \* users: no, password, provider (no password here)
  source,   \* users.auth_source: signup or local
  verified, \* users.email_verified
  links,    \* user_identities: whose, which provider, which subject; `how` is history
  phone,    \* users.phone
  token,    \* account_tokens of purpose verify_email: sent or not
  states,   \* oauth_states: the provider and who was signed in when it began
  waiting,  \* callbacks and phone requests waiting for the provider
  proved,
  cut       \* accounts whose creation stopped before the link was written

identityVars == <<account, source, verified, links, phone, token, states, waiting, proved, cut>>

Nobody == "nobody"
NoPhone == "none"
Known == {a \in Addresses : account[a] # "no"}

Link(a, p, s, how) == [user |-> a, provider |-> p, subject |-> s, how |-> how]
LinksOf(a) == {l \in links : l.user = a}
ByProvider(a) == {l \in LinksOf(a) : l.provider \in Providers}

IdentitiesInit ==
  /\ account = [a \in Addresses |-> "no"] /\ source = [a \in Addresses |-> "local"]
  /\ verified = {} /\ links = {} /\ phone = [a \in Addresses |-> NoPhone]
  /\ token = {} /\ states = {} /\ waiting = {} /\ proved = {} /\ cut = {}

-----------------------------------------------------------------------------
\* signUp: the answer is the same, a known address gets a warning instead.
SignUp(a) ==
  /\ a \notin Known
  /\ account' = [account EXCEPT ![a] = "password"] /\ source' = [source EXCEPT ![a] = "signup"]
  /\ token' = token \cup {a}
  /\ UNCHANGED <<verified, links, phone, states, waiting, proved, cut>>

SendVerification(a) ==
  /\ a \in Known \ verified /\ token' = token \cup {a}
  /\ UNCHANGED <<account, source, verified, links, phone, states, waiting, proved, cut>>

VerifyEmail(a) ==
  /\ a \in token
  /\ token' = token \ {a} /\ verified' = verified \cup {a} /\ proved' = proved \cup {a}
  /\ UNCHANGED <<account, source, links, phone, states, waiting, cut>>

\* The link expires; completing a password reset drops it as well.
TokenEnds(a) ==
  /\ a \in token /\ token' = token \ {a}
  /\ UNCHANGED <<account, source, verified, links, phone, states, waiting, proved, cut>>

\* assertSignupVerified: who may create an organization or a repository.
MayCreate(a) == a \in Known /\ ~(source[a] = "signup" /\ a \notin verified)

-----------------------------------------------------------------------------
\* GET /api/auth/:provider/start: whoever is signed in now is written down.
StartOAuth(u, p) ==
  /\ Cardinality(states \cup waiting) < MaxFlows
  /\ u \in Known \cup {Nobody}
  /\ states' = states \cup {[provider |-> p, link |-> u]}
  /\ UNCHANGED <<account, source, verified, links, phone, token, waiting, proved, cut>>

\* The row is deleted and the provider asked; the answer is a subject and whether it
\* vouches for the address.
ClaimState(f, s, sure) ==
  /\ f \in states
  /\ states' = states \ {f}
  /\ waiting' = waiting \cup
       {[provider |-> f.provider, link |-> f.link, subject |-> s, vouched |-> sure]}
  /\ UNCHANGED <<account, source, verified, links, phone, token, proved, cut>>

\* Cancelled, refused or never come back.
StateEnds(f) ==
  /\ f \in states /\ states' = states \ {f}
  /\ UNCHANGED <<account, source, verified, links, phone, token, waiting, proved, cut>>

FindIdentity(p, s) == {l \in links : l.provider = p /\ l.subject = s}

\* linkIdentity refuses a subject of somebody else and a second one of a provider, and
\* leaves the link that is there.
WithLink(a, p, s, how) ==
  IF FindIdentity(p, s) = {} /\ (\A l \in LinksOf(a) : l.provider # p)
  THEN links \cup {Link(a, p, s, how)} ELSE links

\* The callback of somebody who was signed in when it began.
SettleLink(w) ==
  /\ w \in waiting /\ w.link # Nobody /\ waiting' = waiting \ {w}
  /\ links' = WithLink(w.link, w.provider, w.subject, "asked")
  /\ UNCHANGED <<account, source, verified, phone, token, states, proved, cut>>

\* resolveIdentitySignIn: both sides have proved the address.
BothProved(a, w) == w.vouched /\ a \in verified

SettleKnown(w) ==
  /\ w \in waiting /\ w.link = Nobody /\ FindIdentity(w.provider, w.subject) # {}
  /\ waiting' = waiting \ {w}
  /\ UNCHANGED <<account, source, verified, links, phone, token, states, proved, cut>>

\* An account already has the address: joined, or refused with a 409.
SettleByAddress(w) ==
  LET a == SubjectMail[w.subject] IN
  /\ w \in waiting /\ w.link = Nobody /\ FindIdentity(w.provider, w.subject) = {}
  /\ a \in Known /\ waiting' = waiting \ {w}
  /\ links' = IF BothProved(a, w) THEN WithLink(a, w.provider, w.subject, "address") ELSE links
  /\ UNCHANGED <<account, source, verified, phone, token, states, proved, cut>>

\* createUserFromProvider and then linkIdentity, two statements of no transaction: the
\* process may end between them.
SettleNew(w) ==
  LET a == SubjectMail[w.subject] IN
  /\ w \in waiting /\ w.link = Nobody /\ FindIdentity(w.provider, w.subject) = {}
  /\ a \notin Known /\ waiting' = waiting \ {w}
  /\ account' = [account EXCEPT ![a] = "provider"]
  /\ verified' = IF w.vouched THEN verified \cup {a} ELSE verified
  /\ proved' = IF w.vouched THEN proved \cup {a} ELSE proved
  /\ \/ links' = WithLink(a, w.provider, w.subject, "new") /\ UNCHANGED cut
     \/ cut' = cut \cup {a} /\ UNCHANGED links
  /\ UNCHANGED <<source, phone, token, states>>

-----------------------------------------------------------------------------
\* Mutant: the last link may go as long as there is one.
NotTheLastAny(a) == LinksOf(a) # {}

\* unlinkIdentity: the last link of an account without a password stays.
NotTheLast(a) == account[a] = "password" \/ Cardinality(LinksOf(a)) > 1

\* The phone number in users stays when the link of the number goes this way.
UnlinkIdentity(a, p) ==
  /\ a \in Known /\ NotTheLast(a)
  /\ links' = {l \in links : ~(l.user = a /\ l.provider = p)}
  /\ UNCHANGED <<account, source, verified, phone, token, states, waiting, proved, cut>>

\* verifyFirebaseIdToken is awaited; a number may come with a new subject.
AskPhone(a, n, s) ==
  /\ a \in Known /\ Cardinality(states \cup waiting) < MaxFlows
  /\ waiting' = waiting \cup {[provider |-> "phone", link |-> a, subject |-> <<n, s>>, vouched |-> TRUE]}
  /\ UNCHANGED <<account, source, verified, links, phone, token, states, proved, cut>>

\* The owner check, and the unique index behind it.
NumberFree(a, n) == \A b \in Addresses \ {a} : phone[b] # n

\* One transaction: an old link of another subject goes, the new one and the number come.
SettlePhone(w) ==
  LET a == w.link
      n == w.subject[1]
      keptLinks == {l \in links : ~(l.user = a /\ l.provider = "phone")}
      allowed == NumberFree(a, n) /\ \A l \in FindIdentity("phone", w.subject) : l.user = a
  IN
  /\ w \in waiting /\ w.provider = "phone" /\ waiting' = waiting \ {w}
  /\ links' = IF allowed THEN keptLinks \cup {Link(a, "phone", w.subject, "asked")} ELSE links
  /\ phone' = IF allowed THEN [phone EXCEPT ![a] = n] ELSE phone
  /\ UNCHANGED <<account, source, verified, token, states, proved, cut>>

\* removeVerifiedPhone: a password or another provider must remain.
RemovePhone(a) ==
  /\ a \in Known /\ phone[a] # NoPhone
  /\ account[a] = "password" \/ ByProvider(a) # {}
  /\ links' = {l \in links : ~(l.user = a /\ l.provider = "phone")}
  /\ phone' = [phone EXCEPT ![a] = NoPhone]
  /\ UNCHANGED <<account, source, verified, token, states, waiting, proved, cut>>

IdentitiesNext ==
  \/ \E a \in Addresses :
       \/ SignUp(a) \/ SendVerification(a) \/ VerifyEmail(a) \/ TokenEnds(a) \/ RemovePhone(a)
       \/ \E p \in Providers \cup {"phone"} : UnlinkIdentity(a, p)
       \/ \E n \in Numbers, s \in Uids : AskPhone(a, n, s)
  \/ \E u \in Addresses \cup {Nobody}, p \in Providers : StartOAuth(u, p)
  \/ \E f \in states :
       \/ StateEnds(f)
       \/ \E s \in Subjects, sure \in BOOLEAN : ClaimState(f, s, sure)
  \/ \E w \in waiting :
       \/ w.provider = "phone" /\ SettlePhone(w)
       \/ w.provider # "phone" /\ (SettleLink(w) \/ SettleKnown(w) \/ SettleByAddress(w) \/ SettleNew(w))

IdentitiesSpec == IdentitiesInit /\ [][IdentitiesNext]_identityVars

-----------------------------------------------------------------------------
\* One provider account belongs to one account here and the other way round, and a
\* number to one account, which it is written on.
OneOwner ==
  /\ \A l, m \in links : l.provider = m.provider /\ (l.subject = m.subject \/ l.user = m.user) => l = m
  /\ \A a, b \in Addresses : phone[a] = phone[b] /\ phone[a] # NoPhone => a = b
  /\ \A l \in links : l.provider = "phone" => phone[l.user] = l.subject[1]

\* An account is joined to a provider by its address, and a signup may create
\* repositories, only after somebody with that address opened a link or the provider
\* that made the account vouched for it.
JoinsAreProved ==
  /\ \A l \in links : l.how = "address" => l.user \in proved
  /\ \A a \in Addresses : MayCreate(a) /\ source[a] = "signup" => a \in proved

\* Each account keeps a password or a link, save one cut short while it was made.
KeepsAMethod == \A a \in Known \ cut : account[a] = "password" \/ LinksOf(a) # {}

IdentitiesSound == OneOwner /\ JoinsAreProved /\ KeepsAMethod

\* "Refused when it is the last one and there is no password, because an account nobody
\* can sign into is an account nobody can delete or transfer either"
\* (user-identities.mjs).  The guard counts the phone number as a way in, and no route
\* signs anybody in with one.
SomebodyCanSignIn == \A a \in Known \ cut : account[a] = "password" \/ ByProvider(a) # {}
=============================================================================

-------------------------------- MODULE SignIn --------------------------------
(***************************************************************************)
(* Two ways to a browser session that do not meet: a password with its     *)
(* second factor, and a session at Kuklabs Account that a bridge row here  *)
(* stands for.  Each has state of its own.                                 *)
(***************************************************************************)
EXTENDS Integers, FiniteSets

(***************************************************************************)
(* Signing in with a password, a second factor and a reset link            *)
(* (src/src/auth.mjs, two-factor.mjs, two-factor-api.mjs,                  *)
(* account-verification.mjs, the login of app.mjs).                        *)
(*                                                                         *)
(* Passwords, secrets and sheets of recovery codes are numbered in the     *)
(* order they were set.  A code is <<"step", secret, time step>> or        *)
(* <<"sheet", sheet, position>>.  `accepted` and `issued` are history      *)
(* variables: the codes that were taken, and how many reset links went out.*)
(***************************************************************************)
CONSTANTS
  Accounts,
  Provided,       \* accounts made by a provider sign-in: no password here
  WindowSteps,    \* WINDOW_STEPS
  RecoveryCodes,  \* codes on a sheet, RECOVERY_CODE_COUNT
  LastStep,       \* bound: the last time step
  MaxSignIns,     \* bound: sign-ins begun
  MaxSheets,      \* bound: enrolments and regenerations per account
  MaxLinks        \* bound: reset links per account

ASSUME SignInAssumption ==
  /\ Provided \subseteq Accounts /\ WindowSteps \in Nat /\ RecoveryCodes \in Nat \ {0}
  /\ LastStep \in Nat /\ MaxSignIns \in Nat /\ MaxSheets \in Nat /\ MaxLinks \in Nat

VARIABLES
  password,    \* users.password_hash: which password, 0 for a provider's sentinel
  factor,      \* user_two_factor: phase, secret, last_step (-1 for NULL)
  sheet,       \* the number of the last sheet of recovery codes
  codes,       \* user_recovery_codes: positions left on that sheet
  challenges,  \* two_factor_challenges: the sign-in and the password it proved
  sessions,    \* sessions: the sign-in, whose, the password proved and the code
  signIns,     \* sign-ins begun
  link,        \* the password_reset row of account_tokens: none, live or used
  issued,
  step,        \* currentStep
  accepted

signInVars == <<password, factor, sheet, codes, challenges, sessions, signIns, link,
                issued, step, accepted>>
factorVars == <<factor, sheet, codes, accepted>>
resetVars == <<password, link, issued>>

NoCode == <<"none", 0, 0>>
Off == [phase |-> "off", secret |-> 0, last |-> -1]

SignInInit ==
  /\ password = [u \in Accounts |-> IF u \in Provided THEN 0 ELSE 1]
  /\ factor = [u \in Accounts |-> Off]
  /\ sheet = [u \in Accounts |-> 0] /\ codes = [u \in Accounts |-> {}]
  /\ challenges = {} /\ sessions = {} /\ signIns = 0
  /\ link = [u \in Accounts |-> "none"] /\ issued = [u \in Accounts |-> 0]
  /\ step = 0 /\ accepted = {}

SignedIn(u) == \E s \in sessions : s.user = u
Session(n, u, pw, code) == [n |-> n, user |-> u, pw |-> pw, by |-> code]

-----------------------------------------------------------------------------
\* verifyTotp: a step at or before the last one this account used is skipped.
Fresh(u, t) == t > factor[u].last

InWindow(t) == t >= 0 /\ t \in (step - WindowSteps)..(step + WindowSteps)

Accepts(u, code) ==
  /\ factor[u].phase = "on"
  /\ \/ code[1] = "step" /\ code[2] = factor[u].secret /\ InWindow(code[3]) /\ Fresh(u, code[3])
     \/ code[1] = "sheet" /\ code[2] = sheet[u] /\ code[3] \in codes[u]

Take(u, code) ==
  accepted' = accepted \cup {[n |-> Cardinality(accepted), user |-> u, code |-> code]}

\* What an account's app and sheet can show, now or earlier.
CodesOf(u) ==
  {<<"step", factor[u].secret, t>> : t \in 0..(LastStep + WindowSteps)}
    \cup {<<"sheet", sheet[u], k>> : k \in 1..RecoveryCodes}

\* verifyTwoFactor
Spend(u, code) ==
  /\ Accepts(u, code) /\ Take(u, code)
  /\ \/ code[1] = "step" /\ factor' = [factor EXCEPT ![u].last = code[3]] /\ UNCHANGED codes
     \/ code[1] = "sheet" /\ codes' = [codes EXCEPT ![u] = @ \ {code[3]}] /\ UNCHANGED factor

-----------------------------------------------------------------------------
\* POST /api/auth/login with the right password.
Login(u) ==
  /\ password[u] > 0 /\ signIns < MaxSignIns
  /\ signIns' = signIns + 1
  /\ \/ /\ factor[u].phase = "on"
        /\ challenges' = challenges \cup {[n |-> signIns', user |-> u, pw |-> password[u]]}
        /\ UNCHANGED sessions
     \/ /\ factor[u].phase # "on"
        /\ sessions' = sessions \cup {Session(signIns', u, password[u], NoCode)}
        /\ UNCHANGED challenges
  /\ UNCHANGED <<factorVars, resetVars, step>>

\* A callback from a provider opens a session whatever the second factor says.
ProviderSignIn(u) ==
  /\ signIns < MaxSignIns /\ signIns' = signIns + 1
  /\ sessions' = sessions \cup {Session(signIns', u, 0, NoCode)}
  /\ UNCHANGED <<factorVars, resetVars, challenges, step>>

\* POST /api/auth/two-factor: the challenge is spent, then the code is looked at.
FinishSignIn(ch, code) ==
  /\ ch \in challenges
  /\ challenges' = challenges \ {ch}
  /\ \/ /\ Spend(ch.user, code)
        /\ sessions' = sessions \cup {Session(ch.n, ch.user, ch.pw, code)}
     \/ /\ ~Accepts(ch.user, code) /\ UNCHANGED <<factor, codes, accepted, sessions>>
  /\ UNCHANGED <<sheet, resetVars, signIns, step>>

ChallengeExpires(ch) ==
  /\ ch \in challenges /\ challenges' = challenges \ {ch}
  /\ UNCHANGED <<factorVars, resetVars, sessions, signIns, step>>

\* POST /api/auth/logout, or the thirty days are over.
SessionEnds(s) ==
  /\ s \in sessions /\ sessions' = sessions \ {s}
  /\ UNCHANGED <<factorVars, resetVars, challenges, signIns, step>>

-----------------------------------------------------------------------------
NewSheet(u) ==
  /\ sheet[u] < MaxSheets
  /\ sheet' = [sheet EXCEPT ![u] = @ + 1]

\* A secret is made with each enrolment; it takes the number of its sheet.
BeginEnrolment(u) ==
  /\ SignedIn(u) /\ factor[u].phase # "on" /\ NewSheet(u)
  /\ factor' = [factor EXCEPT ![u] = [phase |-> "pending", secret |-> sheet'[u], last |-> -1]]
  /\ codes' = [codes EXCEPT ![u] = 1..RecoveryCodes]
  /\ UNCHANGED <<accepted, resetVars, challenges, sessions, signIns, step>>

ConfirmEnrolment(u, t) ==
  /\ SignedIn(u) /\ factor[u].phase = "pending" /\ InWindow(t)
  /\ factor' = [factor EXCEPT ![u].phase = "on", ![u].last = t]
  /\ Take(u, <<"step", factor[u].secret, t>>)
  /\ UNCHANGED <<sheet, codes, resetVars, challenges, sessions, signIns, step>>

DisableTwoFactor(u, code) ==
  /\ SignedIn(u) /\ Accepts(u, code) /\ Take(u, code)
  /\ factor' = [factor EXCEPT ![u] = Off] /\ codes' = [codes EXCEPT ![u] = {}]
  /\ UNCHANGED <<sheet, resetVars, challenges, sessions, signIns, step>>

\* A code is spent for it first, and the codes left on the old sheet are gone.
RegenerateCodes(u, code) ==
  /\ SignedIn(u) /\ Accepts(u, code) /\ Take(u, code) /\ NewSheet(u)
  /\ factor' = IF code[1] = "step" THEN [factor EXCEPT ![u].last = code[3]] ELSE factor
  /\ codes' = [codes EXCEPT ![u] = 1..RecoveryCodes]
  /\ UNCHANGED <<resetVars, challenges, sessions, signIns, step>>

-----------------------------------------------------------------------------
\* requestPasswordReset: a new link replaces the one before it.
RequestReset(u) ==
  /\ password[u] > 0 /\ issued[u] < MaxLinks
  /\ link' = [link EXCEPT ![u] = "live"] /\ issued' = [issued EXCEPT ![u] = @ + 1]
  /\ UNCHANGED <<factorVars, password, challenges, sessions, signIns, step>>

\* Mutant: whoever is signed in stays so.
KeptAfterResetAll(u) == sessions

\* DELETE FROM sessions WHERE user_id = ?
KeptAfterReset(u) == {s \in sessions : s.user # u}

\* consumeAccountToken, then the hash, the sessions and every token of the account.
CompleteReset(u) ==
  /\ link[u] = "live"
  /\ password' = [password EXCEPT ![u] = @ + 1]
  /\ sessions' = KeptAfterReset(u)
  /\ link' = [link EXCEPT ![u] = "none"]
  /\ UNCHANGED <<factorVars, issued, challenges, signIns, step>>

\* A password the rules refuse costs the link.
RefuseReset(u) ==
  /\ link[u] = "live" /\ link' = [link EXCEPT ![u] = "used"]
  /\ UNCHANGED <<factorVars, password, issued, challenges, sessions, signIns, step>>

\* Expired, or pruned.
LinkEnds(u) ==
  /\ link[u] # "none" /\ link' = [link EXCEPT ![u] = "none"]
  /\ UNCHANGED <<factorVars, password, issued, challenges, sessions, signIns, step>>

Tick ==
  /\ step < LastStep /\ step' = step + 1
  /\ UNCHANGED <<factorVars, resetVars, challenges, sessions, signIns>>

SignInNext ==
  \/ Tick
  \/ \E u \in Accounts :
       \/ Login(u) \/ ProviderSignIn(u) \/ BeginEnrolment(u)
       \/ \E t \in 0..(LastStep + WindowSteps) : ConfirmEnrolment(u, t)
       \/ \E code \in CodesOf(u) : DisableTwoFactor(u, code) \/ RegenerateCodes(u, code)
       \/ RequestReset(u) \/ CompleteReset(u) \/ RefuseReset(u) \/ LinkEnds(u)
  \/ \E ch \in challenges :
       ChallengeExpires(ch) \/ (\E code \in CodesOf(ch.user) : FinishSignIn(ch, code))
  \/ \E s \in sessions : SessionEnds(s)

SignInSpec == SignInInit /\ [][SignInNext]_signInVars

-----------------------------------------------------------------------------
SignInTypeOK ==
  /\ password \in [Accounts -> Nat] /\ sheet \in [Accounts -> Nat] /\ issued \in [Accounts -> Nat]
  /\ codes \in [Accounts -> SUBSET (1..RecoveryCodes)]
  /\ factor \in [Accounts -> [phase : {"off", "pending", "on"}, secret : Nat, last : Int]]
  /\ link \in [Accounts -> {"none", "live", "used"}]
  /\ signIns \in Nat /\ step \in Nat

\* No code of an app and no recovery code is taken twice, whatever it is taken for:
\* confirming, signing in, turning the second factor off, a new sheet.
CodesTakenOnce ==
  \A a, b \in accepted : a.user = b.user /\ a.code = b.code => a = b

\* One challenge opens at most one session.
OneSessionEach == \A s, t \in sessions : s.n = t.n => s = t

\* After a reset nobody is signed in on the strength of the old password, save who had
\* already proved it and finished with a code within the five minutes of the challenge;
\* and a reset link changed the password once.
ResetsHold ==
  /\ \A s \in sessions :
       s.pw > 0 /\ s.pw # password[s.user] => s.by # NoCode /\ s.pw < password[s.user]
  /\ \A u \in Accounts : password[u] > 0 => password[u] <= 1 + issued[u]

SignInSound == CodesTakenOnce /\ OneSessionEach /\ ResetsHold

-----------------------------------------------------------------------------
(***************************************************************************)
(* Browser sessions that stand for a session at Kuklabs Account            *)
(* (src/src/authkit-identity.mjs, authkit-secure-login.mjs,                *)
(* authkit-session-guard.mjs, the handshakes of                            *)
(* realtime-notifications.mjs).                                            *)
(*                                                                         *)
(* Each device that signs in has a session at AuthKit, whose access and    *)
(* refresh tokens have one generation number, and a bridge row here with   *)
(* the generation it last stored.  A request asks AuthKit one question     *)
(* after another and waits for each answer; others run meanwhile.  AuthKit *)
(* answers /me for any access token that has not run out, refuses a spent  *)
(* refresh token, and lists the sessions that are not revoked; or it is in *)
(* trouble, at its rate limit or out of reach.  A request that opens a     *)
(* WebSocket asks the same questions in code of its own.                   *)
(*                                                                         *)
(* `vouched`, `served` and `lost` are history variables.                   *)
(***************************************************************************)
CONSTANTS
  Devices,
  Requests,  \* requests under way
  Windows,   \* values of authkitSessionCheckSeconds, in ticks
  LastTick,  \* bound: the clock
  MaxTokens  \* bound: generations of a device's tokens

ASSUME AuthKitAssumption == Windows \subseteq Nat /\ LastTick \in Nat /\ MaxTokens \in Nat

VARIABLES
  window,   \* what this instance is configured with
  clock,
  live,     \* devices AuthKit has not revoked
  newest,   \* the generation of tokens AuthKit has given a device last
  ranOut,   \* <<device, generation>> of access tokens past their exp
  bridge,   \* sessions: whether the row is there, its tokens, last_validated_at
  request,  \* what each request waits for, its device and the tokens it holds
  opening,  \* the requests that open a WebSocket
  vouched,  \* when AuthKit last answered for the session of a device
  revoked,  \* when AuthKit revoked it, -1 before
  served,   \* the last request let through
  lost      \* devices that did not sign out and lost their row, with the reason

authKitVars == <<window, clock, live, newest, ranOut, bridge, request, opening, vouched, revoked,
                 served, lost>>

NoBridge == [there |-> FALSE, tokens |-> 0, validated |-> 0]
Idle == [at |-> "idle", device |-> "none", tokens |-> 0, begun |-> -1]

AuthKitInit ==
  /\ window \in Windows /\ clock = 0 /\ live = {} /\ ranOut = {}
  /\ newest = [d \in Devices |-> 0] /\ bridge = [d \in Devices |-> NoBridge]
  /\ request = [r \in Requests |-> Idle] /\ opening = {}
  /\ vouched = [d \in Devices |-> -1] /\ revoked = [d \in Devices |-> -1]
  /\ served = [at |-> -1, begun |-> -1, vouched |-> -1, revoked |-> -1] /\ lost = {}

\* withinSessionCheckWindow
Trusted(last) == window > 0 /\ clock - last < window

Serve(d, begun, since) ==
  served' = [at |-> clock, begun |-> begun, vouched |-> since, revoked |-> revoked[d]]
Ask(r, d, tokens, what) ==
  request' = [request EXCEPT ![r] = [at |-> what, device |-> d, tokens |-> tokens,
                                     begun |-> IF @.begun = -1 THEN clock ELSE @.begun]]
Wait(r, d, tokens, what) == Ask(r, d, tokens, what) /\ UNCHANGED opening
Done(r) == request' = [request EXCEPT ![r] = Idle] /\ opening' = opening \ {r}

\* UPDATE sessions ... WHERE token_hash = ?: nothing where the row has gone.
Validated(d, tokens) ==
  bridge' = IF bridge[d].there
            THEN [bridge EXCEPT ![d] = [there |-> TRUE, tokens |-> tokens, validated |-> clock]]
            ELSE bridge

Revoke(d, why) ==
  /\ bridge' = [bridge EXCEPT ![d] = NoBridge]
  /\ lost' = IF bridge[d].there THEN lost \cup {<<d, why>>} ELSE lost

-----------------------------------------------------------------------------
\* createSecureAuthKitLoginApiHandler and createAuthKitBridgeSession: nothing is written
\* before AuthKit has vouched for the account and the product, and the row is bound to
\* the session in the claims of the token.
SignInWithAuthKit(d) ==
  /\ d \notin live /\ ~bridge[d].there /\ revoked[d] = -1 /\ newest[d] < MaxTokens
  /\ live' = live \cup {d} /\ newest' = [newest EXCEPT ![d] = @ + 1]
  /\ bridge' = [bridge EXCEPT ![d] = [there |-> TRUE, tokens |-> newest'[d], validated |-> clock]]
  /\ vouched' = [vouched EXCEPT ![d] = clock]
  /\ UNCHANGED <<window, clock, ranOut, request, opening, revoked, served, lost>>

\* The row goes whether or not AuthKit heard of it.
Logout(d) ==
  /\ bridge[d].there /\ bridge' = [bridge EXCEPT ![d] = NoBridge]
  /\ live' = live \ {d} \/ live' = live
  /\ UNCHANGED <<window, clock, newest, ranOut, request, opening, vouched, revoked, served, lost>>

\* validateSession up to its first question, and the guard behind it.
Begin(r, d) ==
  /\ request[r] = Idle /\ bridge[d].there
  /\ IF Trusted(bridge[d].validated) /\ <<d, bridge[d].tokens>> \notin ranOut
     THEN Serve(d, clock, vouched[d]) /\ UNCHANGED <<request, opening>>
     ELSE Wait(r, d, bridge[d].tokens, "me") /\ UNCHANGED served
  /\ UNCHANGED <<window, clock, live, newest, ranOut, bridge, vouched, revoked, lost>>

\* validateAuthKitSocketUser trusts no window.
OpenSocket(r, d) ==
  /\ request[r] = Idle /\ bridge[d].there
  /\ Ask(r, d, bridge[d].tokens, "me") /\ opening' = opening \cup {r}
  /\ UNCHANGED <<window, clock, live, newest, ranOut, bridge, vouched, revoked, served, lost>>

\* The sixty days of the row are over when it is read.
BridgeExpires(d) ==
  /\ bridge[d].there /\ Revoke(d, "expired")
  /\ UNCHANGED <<window, clock, live, newest, ranOut, request, opening, vouched, revoked, served>>

\* GET /v1/auth/me.  A token that has run out gets one refresh, a fresh one no other.
AskMe(r) ==
  LET q == request[r] IN
  /\ q.at \in {"me", "again"}
  /\ IF <<q.device, q.tokens>> \notin ranOut
     THEN Wait(r, q.device, q.tokens, "product") /\ UNCHANGED <<bridge, lost>>
     ELSE IF q.at = "me"
          THEN Wait(r, q.device, q.tokens, "refresh") /\ UNCHANGED <<bridge, lost>>
          ELSE Done(r) /\ Revoke(q.device, "ran out")
  /\ UNCHANGED <<window, clock, live, newest, ranOut, vouched, revoked, served>>

\* POST /v1/auth/token/refresh as AuthKit does it: the tokens are new before the answer
\* is here.
RotateTokens(r) ==
  LET q == request[r] IN
  /\ q.at = "refresh" /\ q.device \in live
  /\ q.tokens = newest[q.device] /\ newest[q.device] < MaxTokens
  /\ newest' = [newest EXCEPT ![q.device] = @ + 1]
  /\ Wait(r, q.device, newest'[q.device], "rotated")
  /\ UNCHANGED <<window, clock, live, ranOut, bridge, vouched, revoked, served, lost>>

StoreTokens(r) ==
  LET q == request[r] IN
  /\ q.at = "rotated" /\ Validated(q.device, q.tokens)
  /\ vouched' = [vouched EXCEPT ![q.device] = clock]
  /\ Wait(r, q.device, q.tokens, "again")
  /\ UNCHANGED <<window, clock, live, newest, ranOut, revoked, served, lost>>

\* refreshSession, refreshAuthKitSocketSession: any answer that is not OK takes the row, one
\* of AuthKit in trouble as well as a refusal (spent by another request, or of a revoked
\* session).  Only the first spares it at the rate limit.
RefuseTokens(r, answer) ==
  LET q == request[r] IN
  /\ \/ q.at = "refresh" /\ answer = "refused" /\ (q.device \notin live \/ q.tokens # newest[q.device])
     \/ q.at = "refresh" /\ answer = "limited" /\ r \in opening
     \/ q.at \in {"refresh", "rotated"} /\ answer = "trouble"
  /\ Done(r)
  /\ Revoke(q.device, IF answer # "refused" THEN answer
                      ELSE IF q.device \in live THEN "spent" ELSE "revoked")
  /\ UNCHANGED <<window, clock, live, newest, ranOut, vouched, revoked, served>>

\* assertProductAccess, then the guard: it reads the row the line before has written,
\* and asks for the list of sessions only where that is not recent enough.
AskProduct(r) ==
  LET q == request[r] IN
  /\ q.at = "product" /\ r \notin opening /\ <<q.device, q.tokens>> \notin ranOut
  /\ vouched' = [vouched EXCEPT ![q.device] = clock]
  /\ Validated(q.device, bridge[q.device].tokens)
  /\ IF bridge[q.device].there /\ ~Trusted(clock)
     THEN Wait(r, q.device, bridge[q.device].tokens, "sessions") /\ UNCHANGED served
     ELSE Done(r) /\ Serve(q.device, q.begun, clock)
  /\ UNCHANGED <<window, clock, live, newest, ranOut, revoked, lost>>

\* The socket asks for the sessions whatever the window; a token that has run out ends it.
AskProductForSocket(r) ==
  LET q == request[r] IN
  /\ q.at = "product" /\ r \in opening
  /\ IF <<q.device, q.tokens>> \notin ranOut
     THEN Wait(r, q.device, q.tokens, "sessions") /\ UNCHANGED <<bridge, lost>>
     ELSE Done(r) /\ Revoke(q.device, "ran out")
  /\ UNCHANGED <<window, clock, live, newest, ranOut, vouched, revoked, served>>

\* Only the socket writes that it was validated.
AskSessions(r) ==
  LET q == request[r] IN
  /\ q.at = "sessions" /\ Done(r)
  /\ IF q.device \in live /\ <<q.device, q.tokens>> \notin ranOut
     THEN /\ Serve(q.device, q.begun, clock) /\ UNCHANGED lost
          /\ IF r \in opening
             THEN /\ Validated(q.device, bridge[q.device].tokens)
                  /\ vouched' = [vouched EXCEPT ![q.device] = clock]
             ELSE UNCHANGED <<bridge, vouched>>
     ELSE /\ Revoke(q.device, IF q.device \in live THEN "ran out" ELSE "revoked")
          /\ UNCHANGED <<served, vouched>>
  /\ UNCHANGED <<window, clock, live, newest, ranOut, revoked>>

\* Mutant: an answer that is no answer ends the session.
UnansweredEnds(r) ==
  /\ request[r].at \notin {"idle", "product"} /\ Done(r)
  /\ Revoke(request[r].device, "unanswered")

\* A timeout, or no connection; and outside the refresh a rate limit, AuthKit in trouble or
\* a product that is denied: refused, and the row stays.
Unanswered(r) ==
  /\ request[r] # Idle /\ Done(r) /\ UNCHANGED <<bridge, lost>>

NoAnswer(r) ==
  /\ Unanswered(r)
  /\ UNCHANGED <<window, clock, live, newest, ranOut, vouched, revoked, served>>

-----------------------------------------------------------------------------
CentralRevokes(d) ==
  /\ d \in live /\ live' = live \ {d} /\ revoked' = [revoked EXCEPT ![d] = clock]
  /\ UNCHANGED <<window, clock, newest, ranOut, bridge, request, opening, vouched, served, lost>>

AccessRunsOut(d) ==
  /\ newest[d] > 0 /\ ranOut' = ranOut \cup {<<d, n>> : n \in 1..newest[d]}
  /\ UNCHANGED <<window, clock, live, newest, bridge, request, opening, vouched, revoked, served, lost>>

AuthKitTick ==
  /\ clock < LastTick /\ clock' = clock + 1
  /\ UNCHANGED <<window, live, newest, ranOut, bridge, request, opening, vouched, revoked, served, lost>>

AuthKitNext ==
  \/ AuthKitTick
  \/ \E d \in Devices :
       \/ SignInWithAuthKit(d) \/ Logout(d) \/ BridgeExpires(d)
       \/ CentralRevokes(d) \/ AccessRunsOut(d)
       \/ \E r \in Requests : Begin(r, d) \/ OpenSocket(r, d)
  \/ \E r \in Requests :
       \/ AskMe(r) \/ RotateTokens(r) \/ StoreTokens(r)
       \/ AskProduct(r) \/ AskProductForSocket(r) \/ AskSessions(r) \/ NoAnswer(r)
       \/ \E answer \in {"refused", "limited", "trouble"} : RefuseTokens(r, answer)

AuthKitSpec == AuthKitInit /\ [][AuthKitNext]_authKitVars

-----------------------------------------------------------------------------
\* No request is served unless AuthKit answered for the session of its device while the
\* request waited, or less than the window before: an outage serves nobody on old trust.
FailsClosed == served.at > -1 => served.at - served.vouched < (IF window = 0 THEN 1 ELSE window)

\* A device AuthKit has not revoked loses its row only by its age or once an access token
\* of it has run out: between two questions of one request, or at a refresh that another
\* request has spent, that AuthKit answers with trouble or, for a socket, with its limit.
\* While its token holds, no outage, rate limit or crowd of requests signs a device out.
KeepsTheHealthy ==
  \A e \in lost :
    \/ e[2] = "expired"
    \/ e[2] = "revoked" /\ e[1] \notin live
    \/ e[2] = "spent" /\ newest[e[1]] > 1
    \/ e[2] \in {"ran out", "trouble", "limited"} /\ \E n \in 1..newest[e[1]] : <<e[1], n>> \in ranOut

AuthKitSound == FailsClosed /\ KeepsTheHealthy

\* "A `429` is never treated as a rejection" (docs/ONE_KUKLABS_ACCOUNT.md), "an outage
\* refuses without signing everybody out" (docs/AUTHKIT_REHEARSAL.md).  A refresh answered
\* with a 5xx takes the row, and one answered with a 429 takes that of a socket.
RefusedIsNotRejected == \A e \in lost : e[2] \notin {"limited", "trouble"}

\* "a centrally revoked device keeps working for up to the window"
\* (docs/ONE_KUKLABS_ACCOUNT.md).  The validation before the guard has just written
\* last_validated_at, so with a window the guard never asks which sessions are live.
RevokedDeviceEnds ==
  served.revoked > -1 => served.begun - served.revoked <= window
=============================================================================

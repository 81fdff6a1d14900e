----------------------------- MODULE Moderation -----------------------------
(***************************************************************************)
(* Abuse reports, cases and appeals (src/src/abuse-reports.mjs), and the   *)
(* paths that ask whether a repository is disabled (git-http.mjs,          *)
(* git-lfs.mjs, repository-access.mjs, ssh-keys.mjs).                      *)
(*                                                                         *)
(* Appeals name a repository by its slugs, cases by its id.  A transfer or *)
(* a move to the trash is authorised before its body is read, so it may    *)
(* land on a repository that was disabled meanwhile.  A reinstatement is   *)
(* two statements that commit one by one: the process may die between      *)
(* them.                                                                   *)
(*                                                                         *)
(* `decisions`, `overtaken`, `forgotten`, and `about` and `late` in the    *)
(* records are history variables.                                          *)
(***************************************************************************)
EXTENDS Naturals, FiniteSets

CONSTANTS
  Hosted,             \* repositories
  Places,             \* organization/repository slug pairs
  Categories, CaseIds, AppealIds,
  Moves,              \* transfer and trash requests
  Fetches,            \* reads over Git
  MaxReports          \* bound

\* A repository in the trash or purged is under no slugs.
ASSUME ModerationAssumption == {"trash", "gone", "nowhere"} \cap Places = {} /\ MaxReports \in Nat

VARIABLES
  place,      \* repository -> its slugs, "trash" or "gone"
  origin,     \* repository -> the slugs a restore gives back
  disabled,   \* repositories with abuse_disabled_at
  case,       \* row of abuse_cases, or NoCase
  appeal,     \* row of abuse_appeals, or NoAppeal
  move,       \* transfer or trash between its authorisation and its work
  fetch,      \* reads that were served
  decisions,  \* repository -> cases that disabled it since it was last reinstated
  overtaken,  \* repositories that moved while they were disabled
  forgotten   \* appeals whose reinstatement was cut short before it answered them

moderationVars == <<place, origin, disabled, case, appeal, move, fetch, decisions, overtaken, forgotten>>

NoCase == [status |-> "none", target |-> "nothing", category |-> "none", reports |-> 0, action |-> "none"]
NoAppeal == [status |-> "none", at |-> "nowhere", about |-> "nothing"]
Idling == [op |-> "none"]   \* no request

ModerationInit ==
  /\ \E first \in Hosted, p \in Places :
       /\ place = [r \in Hosted |-> IF r = first THEN p ELSE "gone"]
       /\ origin = [r \in Hosted |-> p]
  /\ disabled = {} /\ case = [c \in CaseIds |-> NoCase] /\ appeal = [a \in AppealIds |-> NoAppeal]
  /\ move = [m \in Moves |-> Idling] /\ fetch = [f \in Fetches |-> Idling]
  /\ decisions = [r \in Hosted |-> {}] /\ overtaken = {} /\ forgotten = {}

Live(p) == {r \in Hosted : place[r] = p}

-----------------------------------------------------------------------------
(* Reports and cases                                                       *)

\* What is not there is filed under the name it was given.
findTarget(p) == IF Live(p) = {} THEN p ELSE CHOOSE r \in Live(p) : TRUE

OpenCase(about, category) ==
  {c \in CaseIds : case[c].status = "open" /\ case[c].target = about /\ case[c].category = category}

fileAbuseReport(p, category) ==
  /\ LET about == findTarget(p)
         open == OpenCase(about, category)
     IN \/ \E c \in open : case[c].reports < MaxReports /\ case' = [case EXCEPT ![c].reports = @ + 1]
        \/ /\ open = {}
           /\ \E c \in CaseIds :
                /\ case[c] = NoCase
                /\ case' = [case EXCEPT ![c] = [status |-> "open", target |-> about, category |-> category,
                                                reports |-> 1, action |-> "none"]]
  /\ UNCHANGED <<place, origin, disabled, appeal, move, fetch, decisions, overtaken, forgotten>>

\* The decision and the flag are one transaction; a purged repository has no
\* row to flag.
resolveAbuseCase(c, action) ==
  /\ case[c].status = "open" /\ (action = "disable" => case[c].target \in Hosted)
  /\ case' = [case EXCEPT ![c].action = action,
                ![c].status = CASE action = "escalate" -> "escalated" [] action = "dismiss" -> "dismissed"
                              [] OTHER -> "actioned"]
  /\ LET r == case[c].target IN
     IF action = "disable" /\ place[r] # "gone"
     THEN disabled' = disabled \cup {r} /\ decisions' = [decisions EXCEPT ![r] = @ \cup {c}]
     ELSE UNCHANGED <<disabled, decisions>>
  /\ UNCHANGED <<place, origin, appeal, move, fetch, overtaken, forgotten>>

\* By slugs, those of the trash too.
AppealsAnsweredNone(r) == {}
AppealsAnswered(r) == {a \in AppealIds : appeal[a].status = "open" /\ appeal[a].at = place[r]}

reinstateRepository(r) ==
  /\ r \in disabled /\ disabled' = disabled \ {r}
  /\ appeal' = [a \in AppealIds |-> IF a \in AppealsAnswered(r) THEN [appeal[a] EXCEPT !.status = "answered"]
                                    ELSE appeal[a]]
  /\ decisions' = [decisions EXCEPT ![r] = {}]
  /\ UNCHANGED <<place, origin, case, move, fetch, overtaken, forgotten>>

\* The process dies after the flag is cleared and before the appeals are answered; every
\* request goes with it, and a second reinstatement is refused: nothing is disabled.
ReinstatementCutShort(r) ==
  /\ r \in disabled /\ disabled' = disabled \ {r}
  /\ decisions' = [decisions EXCEPT ![r] = {}]
  /\ forgotten' = forgotten \cup AppealsAnswered(r)
  /\ move' = [m \in Moves |-> Idling]
  /\ UNCHANGED <<place, origin, case, appeal, fetch, overtaken>>

appealDisable(a, p) ==
  /\ appeal[a] = NoAppeal /\ ~\E b \in AppealIds : appeal[b].status = "open" /\ appeal[b].at = p
  /\ \E r \in Live(p) \cap disabled :
       /\ appeal' = [appeal EXCEPT ![a] = [status |-> "open", at |-> p, about |-> r]]
       /\ \E c \in CaseIds : case[c].action = "disable" /\ case[c].target = r
  /\ UNCHANGED <<place, origin, disabled, case, move, fetch, decisions, overtaken, forgotten>>

answerAppeal(a) ==
  /\ appeal[a].status = "open" /\ appeal' = [appeal EXCEPT ![a].status = "answered"]
  /\ UNCHANGED <<place, origin, disabled, case, move, fetch, decisions, overtaken, forgotten>>

-----------------------------------------------------------------------------
(* The life of a repository meanwhile                                      *)

\* requireRepositoryAccess refuses a disabled repository; the body comes after.
AskToMove(m, r, op) ==
  /\ move[m] = Idling /\ place[r] \in Places /\ r \notin disabled
  /\ move' = [move EXCEPT ![m] = [op |-> op, repo |-> r, from |-> place[r]]]
  /\ UNCHANGED <<place, origin, disabled, case, appeal, fetch, decisions, overtaken, forgotten>>

MoveDone(m) ==
  /\ move[m].op # "none"
  /\ LET r == move[m].repo IN
     /\ \E p \in Places \cup {"trash"} :
          /\ IF place[r] = move[m].from
             THEN /\ IF move[m].op = "trash" THEN p = "trash" ELSE p \in Places /\ Live(p) = {}
                  /\ place' = [place EXCEPT ![r] = p] /\ origin' = [origin EXCEPT ![r] = move[m].from]
                  /\ overtaken' = IF r \in disabled THEN overtaken \cup {r} ELSE overtaken
             ELSE UNCHANGED <<place, origin, overtaken, forgotten>>
     /\ move' = [move EXCEPT ![m] = Idling]
  /\ UNCHANGED <<disabled, case, appeal, fetch, decisions, forgotten>>

\* Only the role in the original organization is asked.
restoreRepository(r) ==
  /\ place[r] = "trash" /\ Live(origin[r]) = {} /\ place' = [place EXCEPT ![r] = origin[r]]
  /\ UNCHANGED <<origin, disabled, case, appeal, move, fetch, decisions, overtaken, forgotten>>

purgeRepository(r) ==
  /\ place[r] = "trash" /\ place' = [place EXCEPT ![r] = "gone"]
  /\ disabled' = disabled \ {r} /\ decisions' = [decisions EXCEPT ![r] = {}]
  /\ UNCHANGED <<origin, case, appeal, move, fetch, overtaken, forgotten>>

\* Another repository under slugs that are free; an id is never used twice.
CreateRepository(r, p) ==
  /\ place[r] = "gone" /\ Live(p) = {} /\ place' = [place EXCEPT ![r] = p]
  /\ (\A c \in CaseIds : case[c].target # r) /\ (\A a \in AppealIds : appeal[a].about # r)
  /\ r \notin overtaken
  /\ \A m \in Moves : move[m].op = "none"
  /\ UNCHANGED <<origin, disabled, case, appeal, move, fetch, decisions, overtaken, forgotten>>

-----------------------------------------------------------------------------
(* Who asks *)

\* Git and large objects over HTTP ask the flag before the visibility, a
\* user's SSH key asks the resolver; a deploy key asks for its own row.
Serves(r, by) == by = "deploy key" \/ r \notin disabled

Fetch(f, r, by) ==
  /\ fetch[f] = Idling /\ place[r] \in Places /\ Serves(r, by)
  /\ fetch' = [fetch EXCEPT ![f] = [op |-> "served", by |-> by, late |-> r \in disabled]]
  /\ UNCHANGED <<place, origin, disabled, case, appeal, move, decisions, overtaken, forgotten>>

ModerationNext ==
  \/ \E p \in Places, category \in Categories : fileAbuseReport(p, category)
  \/ \E c \in CaseIds, action \in {"dismiss", "warn", "disable", "escalate"} : resolveAbuseCase(c, action)
  \/ \E r \in Hosted : \/ reinstateRepository(r) \/ ReinstatementCutShort(r)
                     \/ restoreRepository(r) \/ purgeRepository(r)
  \/ \E a \in AppealIds : answerAppeal(a) \/ \E p \in Places : appealDisable(a, p)
  \/ \E m \in Moves : MoveDone(m) \/ \E r \in Hosted, op \in {"transfer", "trash"} : AskToMove(m, r, op)
  \/ \E r \in Hosted, p \in Places : CreateRepository(r, p)
  \/ \E f \in Fetches, r \in Hosted, by \in {"http", "user key", "deploy key"} : Fetch(f, r, by)

ModerationSpec == ModerationInit /\ [][ModerationNext]_moderationVars

-----------------------------------------------------------------------------

\* Reports of one thing and one category are one open case.
OneOpenCase ==
  \A b, c \in CaseIds : b # c /\ case[b].status = "open" /\ case[c].status = "open" =>
    case[b].target # case[c].target \/ case[b].category # case[c].category

\* A repository is disabled exactly while a decision on it stands, through
\* transfers, the trash and repositories that take over its slugs.
DisabledByDecision ==
  \A r \in Hosted :
    /\ r \in disabled <=> decisions[r] # {}
    /\ \A c \in decisions[r] : case[c].target = r /\ case[c].action = "disable"

\* Nobody waits for an answer that reinstatement was: an open appeal is about
\* a repository that is still disabled under the slugs it names, unless a
\* request let in before the decision moved the repository away, or the
\* process died between the two statements of the reinstatement.
NobodyWaitsInVain ==
  \A a \in AppealIds : appeal[a].status = "open" =>
    \/ appeal[a].about \in disabled /\ place[appeal[a].about] = appeal[a].at
    \/ appeal[a].about \in overtaken \/ a \in forgotten

\* appealDisable asks for the slugs alone; one appeal at a time about one repository
\* follows for as long as the repository keeps them and its appeals are answered.
OneOpenAppeal ==
  \A a, b \in AppealIds :
    /\ a # b /\ appeal[a].status = "open" /\ appeal[b].status = "open"
    /\ appeal[a].about = appeal[b].about
    => appeal[a].about \in overtaken \/ {a, b} \cap forgotten # {}

\* A report disables nothing; a decision holds for the repository it was taken
\* on and for no other; and its appeal, one at a time, is answered by the
\* reinstatement (abuse-reports.mjs).
ModerationSound == OneOpenCase /\ DisabledByDecision /\ NobodyWaitsInVain /\ OneOpenAppeal

\* reinstateRepository: "Any appeal about this repository is answered by the reinstatement
\* itself."  Does not hold: the process dies between its two statements.
AnsweredByReinstatement ==
  \A a \in AppealIds : appeal[a].status = "open" => appeal[a].about \in disabled \/ appeal[a].about \in overtaken

\* docs/ABUSE_REPORTS.md: while disabled, nobody reads it, its owners included.  Does not
\* hold: authorizeSshCommand lets a deploy key in by its own row.
ReadByNobody == \A f \in Fetches : fetch[f].op = "served" => ~fetch[f].late

=============================================================================

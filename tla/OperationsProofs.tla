--------------------------- MODULE OperationsProofs ---------------------------
(***************************************************************************)
(* What the operators of an instance order and pay for: proofs about       *)
(* Maintenance, Moderation, Backups and Payments, for any number of        *)
(* windows, operators, cases, appeals, archives, clicks, requests and      *)
(* deaths.  The modules share no variable; each has its own invariant and  *)
(* its own part here.                                                      *)
(***************************************************************************)
EXTENDS MCOperations, Integers, FiniteSetTheorems, WellFoundedInduction, SequenceTheorems, TLAPS

(***************************************************************************)
(* Maintenance: the marker follows the windows, while nobody dies between  *)
(* row and marker and the command line is left alone.                      *)
(***************************************************************************)
Row ==
  [state : {"row"}, by : Admins, approver : Admins \cup {"nobody"}, starts : 0..LastHour, ends : 0..LastHour,
   started : BOOLEAN, at : Nat, ended : BOOLEAN, cancelled : BOOLEAN]

MaintType ==
  /\ hour \in Nat /\ window \in [WindowIds -> Row \cup {NoWindow}]
  /\ marker \in {"off", "window", "cli"} /\ calm \in BOOLEAN

\* A window ends after it started, and starts after somebody else approved it.
Agreed(w) ==
  Exists(w) =>
    /\ window[w].ended => window[w].started
    /\ window[w].approver # "nobody" => window[w].approver # window[w].by
    /\ window[w].started =>
         /\ window[w].approver # "nobody"
         /\ window[w].at + Early >= window[w].starts /\ window[w].at <= window[w].ends

MaintInv == MaintType /\ (\A w \in WindowIds : Agreed(w)) /\ PlansDisjoint /\ CanBeLeft

LEMMA RowsExist ==
  ASSUME MaintType, NEW w \in WindowIds
  PROVE  Exists(w) <=> window[w] \in Row
<1>1. NoWindow \notin Row
  BY DEF NoWindow, Row
<1> QED BY <1>1 DEF MaintType, Exists

LEMMA MaintenanceFollows == MaintInv => MaintenanceSound
<1> SUFFICES ASSUME MaintInv PROVE MaintenanceSound
  OBVIOUS
<1>1. StartedByAgreement
  BY DEF MaintInv, Agreed, StartedByAgreement
<1>2. PageAdmitsIt
  BY DEF PageAdmitsIt, statusSnapshot
<1> QED BY <1>1, <1>2 DEF MaintInv, MaintenanceSound

LEMMA MaintStarts == MaintInit => MaintInv
<1> SUFFICES ASSUME MaintInit PROVE MaintInv
  OBVIOUS
<1>1. MaintType
  BY DEF MaintInit, MaintType
<1>2. \A w \in WindowIds : ~Exists(w)
  BY DEF MaintInit, Exists
<1> QED BY <1>1, <1>2 DEF MaintInv, Agreed, PlansDisjoint, Standing, CanBeLeft, InProgress, MaintInit

\* A step that leaves the windows and the marker alone disturbs nothing.
LEMMA WindowsStand ==
  ASSUME MaintInv, UNCHANGED <<window, marker>>, calm' \in BOOLEAN, calm' => calm, hour' \in Nat
  PROVE  MaintInv'
<1>1. MaintType'
  BY DEF MaintInv, MaintType
<1>2. \A w \in WindowIds : (Exists(w) <=> Exists(w)') /\ (Standing(w) <=> Standing(w)') /\ (InProgress(w) <=> InProgress(w)')
  BY DEF Exists, Standing, InProgress
<1>3. (\A w \in WindowIds : Agreed(w))' /\ PlansDisjoint' /\ CanBeLeft'
  BY <1>2 DEF MaintInv, Agreed, PlansDisjoint, CanBeLeft
<1> QED BY <1>1, <1>3 DEF MaintInv

\* What a step that writes one row does to the others.
LEMMA OneRow ==
  ASSUME MaintInv, NEW w \in WindowIds, NEW x \in Row, window' = [window EXCEPT ![w] = x]
  PROVE  /\ window' \in [WindowIds -> Row \cup {NoWindow}] /\ window'[w] = x /\ Exists(w)'
         /\ \A v \in WindowIds \ {w} :
              /\ window'[v] = window[v] /\ (Exists(v) <=> Exists(v)')
              /\ (Standing(v) <=> Standing(v)') /\ (InProgress(v) <=> InProgress(v)') /\ (Agreed(v) <=> Agreed(v)')
<1>1. window \in [WindowIds -> Row \cup {NoWindow}] /\ x # NoWindow
  BY DEF MaintInv, MaintType, Row, NoWindow
<1>2. window' \in [WindowIds -> Row \cup {NoWindow}] /\ window'[w] = x
  BY <1>1
<1>3. \A v \in WindowIds \ {w} : window'[v] = window[v]
  BY <1>1
<1>4. Exists(w)'
  BY <1>1, <1>2 DEF Exists
<1> QED BY <1>2, <1>3, <1>4 DEF Exists, Standing, InProgress, Agreed

LEMMA ScheduleOK ==
  ASSUME MaintInv, NEW a \in Admins, NEW w \in WindowIds, NEW s \in 0..LastHour, NEW e \in 0..LastHour,
         scheduleMaintenanceWindow(a, w, s, e)
  PROVE  MaintInv'
<1> DEFINE x == [state |-> "row", by |-> a, approver |-> "nobody", starts |-> s, ends |-> e,
                 started |-> FALSE, at |-> 0, ended |-> FALSE, cancelled |-> FALSE]
<1>1. x \in Row
  BY DEF Row
<1>2. window' = [window EXCEPT ![w] = x] /\ UNCHANGED <<hour, marker, calm>> /\ ~Exists(w) /\ marker = "off"
  BY DEF scheduleMaintenanceWindow, Admitted
<1> HIDE DEF x
<1>3. /\ window' \in [WindowIds -> Row \cup {NoWindow}] /\ window'[w] = x /\ Exists(w)'
      /\ \A v \in WindowIds \ {w} :
              /\ window'[v] = window[v] /\ (Exists(v) <=> Exists(v)')
              /\ (Standing(v) <=> Standing(v)') /\ (InProgress(v) <=> InProgress(v)') /\ (Agreed(v) <=> Agreed(v)')
  BY <1>1, <1>2, OneRow
<1>4. MaintType'
  BY <1>2, <1>3 DEF MaintInv, MaintType
<1>5. Agreed(w)' /\ ~InProgress(w)' /\ window'[w].starts = s /\ window'[w].ends = e
  BY <1>3 DEF Agreed, InProgress, x
<1>6. \A v \in WindowIds \ {w} : Standing(v) => window[v].ends <= s \/ e <= window[v].starts
  <2> SUFFICES ASSUME NEW v \in WindowIds \ {w}, Standing(v) PROVE window[v].ends <= s \/ e <= window[v].starts
    OBVIOUS
  <2>1. window[v] \in Row
    BY RowsExist DEF MaintInv, Standing
  <2>2. window[v].ends \in Nat /\ window[v].starts \in Nat /\ s \in Nat /\ e \in Nat
    BY <2>1, MaintenanceAssumption DEF Row
  <2> QED BY <2>2 DEF scheduleMaintenanceWindow, Overlaps
<1>7. PlansDisjoint'
  BY <1>3, <1>5, <1>6 DEF MaintInv, PlansDisjoint
<1>8. CanBeLeft'
  BY <1>2, <1>3, <1>5 DEF MaintInv, CanBeLeft
<1> QED BY <1>3, <1>4, <1>5, <1>7, <1>8 DEF MaintInv

\* Approved, started, ended or cancelled, a window keeps its times.
LEMMA PlanKept ==
  ASSUME MaintInv, NEW w \in WindowIds, NEW x \in Row, window' = [window EXCEPT ![w] = x],
         x.starts = window[w].starts, x.ends = window[w].ends,
         ~x.cancelled /\ ~x.ended => Standing(w)
  PROVE  PlansDisjoint'
<1>1. window'[w] = x /\ Exists(w)' /\ (Standing(w)' => Standing(w))
      /\ \A v \in WindowIds \ {w} : window'[v] = window[v] /\ (Standing(v) <=> Standing(v)')
  BY OneRow DEF Standing
<1> QED BY <1>1 DEF MaintInv, PlansDisjoint

LEMMA ApproveOK ==
  ASSUME MaintInv, NEW a \in Admins, NEW w \in WindowIds, approveMaintenanceWindow(a, w)
  PROVE  MaintInv'
<1>1. window[w] \in Row
  BY RowsExist DEF MaintInv, approveMaintenanceWindow
<1> DEFINE x == [window[w] EXCEPT !.approver = a]
<1>2. /\ x \in Row /\ x.starts = window[w].starts /\ x.ends = window[w].ends /\ x.started = window[w].started
      /\ x.ended = window[w].ended /\ x.cancelled = window[w].cancelled /\ x.approver = a /\ x.by = window[w].by
  BY <1>1 DEF Row
<1>3. window' = [window EXCEPT ![w] = x] /\ UNCHANGED <<hour, marker, calm>>
  BY DEF approveMaintenanceWindow
<1>4. Exists(w) /\ window[w].approver = "nobody" /\ window[w].by # a
  BY DEF approveMaintenanceWindow
<1> HIDE DEF x
<1>5. /\ window' \in [WindowIds -> Row \cup {NoWindow}] /\ window'[w] = x /\ Exists(w)'
      /\ \A v \in WindowIds \ {w} :
              /\ window'[v] = window[v] /\ (Exists(v) <=> Exists(v)')
              /\ (Standing(v) <=> Standing(v)') /\ (InProgress(v) <=> InProgress(v)') /\ (Agreed(v) <=> Agreed(v)')
  BY <1>2, <1>3, OneRow
<1>6. MaintType'
  BY <1>3, <1>5 DEF MaintInv, MaintType
<1>7. Agreed(w)' /\ (InProgress(w)' <=> InProgress(w))
  BY <1>2, <1>4, <1>5 DEF MaintInv, Agreed, InProgress
<1>8. PlansDisjoint'
  BY <1>2, <1>3, <1>4, PlanKept DEF Standing
<1>9. CanBeLeft'
  BY <1>2, <1>3, <1>4, <1>5, <1>7 DEF MaintInv, CanBeLeft
<1> QED BY <1>5, <1>6, <1>7, <1>8, <1>9 DEF MaintInv

LEMMA StartOK ==
  ASSUME MaintInv, NEW w \in WindowIds, startMaintenanceWindow(w)
  PROVE  MaintInv'
<1>1. window[w] \in Row /\ hour \in Nat
  BY RowsExist DEF MaintInv, MaintType, startMaintenanceWindow, MayStart
<1> DEFINE x == [window[w] EXCEPT !.started = TRUE, !.at = hour]
<1>2. /\ x \in Row /\ x.starts = window[w].starts /\ x.ends = window[w].ends /\ x.started /\ x.at = hour
      /\ x.ended = window[w].ended /\ x.cancelled = window[w].cancelled /\ x.by = window[w].by
      /\ x.approver = window[w].approver
  BY <1>1 DEF Row
<1>3. window' = [window EXCEPT ![w] = x] /\ UNCHANGED hour
  BY DEF startMaintenanceWindow
<1>4. /\ Exists(w) /\ ~window[w].started /\ window[w].approver # "nobody"
      /\ hour + Early >= window[w].starts /\ hour <= window[w].ends
  BY DEF startMaintenanceWindow, MayStart
<1>5. marker' \in {"off", "window", "cli"} /\ calm' \in BOOLEAN /\ (calm' => marker' = "window")
  BY DEF startMaintenanceWindow, MaintInv, MaintType
<1>6. ~window[w].ended
  BY <1>4 DEF MaintInv, Agreed
<1> HIDE DEF x
<1>7. /\ window' \in [WindowIds -> Row \cup {NoWindow}] /\ window'[w] = x /\ Exists(w)'
      /\ \A v \in WindowIds \ {w} :
              /\ window'[v] = window[v] /\ (Exists(v) <=> Exists(v)')
              /\ (Standing(v) <=> Standing(v)') /\ (InProgress(v) <=> InProgress(v)') /\ (Agreed(v) <=> Agreed(v)')
  BY <1>2, <1>3, OneRow
<1>8. MaintType'
  BY <1>3, <1>5, <1>7 DEF MaintInv, MaintType
<1>9. Agreed(w)'
  BY <1>2, <1>4, <1>6, <1>7 DEF MaintInv, Agreed
<1>10. PlansDisjoint'
  BY <1>2, <1>3, <1>4, PlanKept DEF Standing
<1>11. CanBeLeft'
  BY <1>2, <1>5, <1>6, <1>7 DEF CanBeLeft
<1> QED BY <1>7, <1>8, <1>9, <1>10, <1>11 DEF MaintInv

LEMMA EndOK ==
  ASSUME MaintInv, NEW w \in WindowIds, endMaintenanceWindow(w)
  PROVE  MaintInv'
<1>1. window[w] \in Row
  BY RowsExist DEF MaintInv, endMaintenanceWindow
<1> DEFINE x == [window[w] EXCEPT !.ended = TRUE]
<1>2. /\ x \in Row /\ x.starts = window[w].starts /\ x.ends = window[w].ends /\ x.started = window[w].started
      /\ x.ended /\ x.at = window[w].at /\ x.by = window[w].by /\ x.approver = window[w].approver
  BY <1>1 DEF Row
<1>3. window' = [window EXCEPT ![w] = x] /\ UNCHANGED hour
  BY DEF endMaintenanceWindow
<1>4. Exists(w) /\ window[w].started
  BY DEF endMaintenanceWindow
<1>5. marker' \in {"off", "window", "cli"} /\ calm' \in BOOLEAN /\ (calm' => marker' = "off")
  BY DEF endMaintenanceWindow, MaintInv, MaintType
<1> HIDE DEF x
<1>7. /\ window' \in [WindowIds -> Row \cup {NoWindow}] /\ window'[w] = x /\ Exists(w)'
      /\ \A v \in WindowIds \ {w} :
              /\ window'[v] = window[v] /\ (Exists(v) <=> Exists(v)')
              /\ (Standing(v) <=> Standing(v)') /\ (InProgress(v) <=> InProgress(v)') /\ (Agreed(v) <=> Agreed(v)')
  BY <1>2, <1>3, OneRow
<1>8. MaintType'
  BY <1>3, <1>5, <1>7 DEF MaintInv, MaintType
<1>9. Agreed(w)' /\ ~InProgress(w)'
  BY <1>2, <1>4, <1>7 DEF MaintInv, Agreed, InProgress
<1>10. PlansDisjoint'
  BY <1>2, <1>3, PlanKept
<1>11. CanBeLeft'
  BY <1>2, <1>5, <1>7, <1>9 DEF CanBeLeft
<1> QED BY <1>7, <1>8, <1>9, <1>10, <1>11 DEF MaintInv

LEMMA CancelOK ==
  ASSUME MaintInv, NEW w \in WindowIds, cancelMaintenanceWindow(w)
  PROVE  MaintInv'
<1>1. window[w] \in Row
  BY RowsExist DEF MaintInv, cancelMaintenanceWindow
<1> DEFINE x == [window[w] EXCEPT !.cancelled = TRUE]
<1>2. /\ x \in Row /\ x.starts = window[w].starts /\ x.ends = window[w].ends /\ x.started = window[w].started
      /\ x.ended = window[w].ended /\ x.at = window[w].at /\ x.by = window[w].by /\ x.approver = window[w].approver
      /\ x.cancelled
  BY <1>1 DEF Row
<1>3. window' = [window EXCEPT ![w] = x] /\ UNCHANGED <<hour, marker, calm>>
  BY DEF cancelMaintenanceWindow
<1>4. Exists(w) /\ (window[w].started => window[w].ended)
  BY DEF cancelMaintenanceWindow
<1> HIDE DEF x
<1>7. /\ window' \in [WindowIds -> Row \cup {NoWindow}] /\ window'[w] = x /\ Exists(w)'
      /\ \A v \in WindowIds \ {w} :
              /\ window'[v] = window[v] /\ (Exists(v) <=> Exists(v)')
              /\ (Standing(v) <=> Standing(v)') /\ (InProgress(v) <=> InProgress(v)') /\ (Agreed(v) <=> Agreed(v)')
  BY <1>2, <1>3, OneRow
<1>8. MaintType'
  BY <1>3, <1>7 DEF MaintInv, MaintType
<1>9. Agreed(w)' /\ ~InProgress(w)'
  BY <1>2, <1>4, <1>7 DEF MaintInv, Agreed, InProgress
<1>10. PlansDisjoint'
  BY <1>2, <1>3, PlanKept
<1>11. CanBeLeft'
  BY <1>2, <1>3, <1>4, <1>7, <1>9 DEF MaintInv, CanBeLeft
<1> QED BY <1>7, <1>8, <1>9, <1>10, <1>11 DEF MaintInv

LEMMA CliOK == ASSUME MaintInv, CliMaintenance PROVE MaintInv'
<1>1. MaintType'
  BY DEF MaintInv, MaintType, CliMaintenance
<1>2. ~calm' /\ window' = window
  BY DEF CliMaintenance
<1>3. (\A w \in WindowIds : Agreed(w))' /\ PlansDisjoint'
  BY <1>2 DEF MaintInv, Agreed, Exists, PlansDisjoint, Standing
<1> QED BY <1>1, <1>2, <1>3 DEF MaintInv, CanBeLeft

LEMMA MaintStep == MaintInv /\ [MaintNext]_maintVars => MaintInv'
<1> SUFFICES ASSUME MaintInv, [MaintNext]_maintVars PROVE MaintInv'
  OBVIOUS
<1>1. ASSUME NEW w \in WindowIds, NEW a \in Admins, NEW s \in 0..LastHour, NEW e \in 0..LastHour,
             scheduleMaintenanceWindow(a, w, s, e)
      PROVE  MaintInv'
  BY <1>1, ScheduleOK
<1>2. ASSUME NEW w \in WindowIds, NEW a \in Admins, approveMaintenanceWindow(a, w) PROVE MaintInv'
  BY <1>2, ApproveOK
<1>3. ASSUME NEW w \in WindowIds,
             startMaintenanceWindow(w) \/ endMaintenanceWindow(w) \/ cancelMaintenanceWindow(w)
      PROVE  MaintInv'
  BY <1>3, StartOK, EndOK, CancelOK
<1>4. CASE CliMaintenance
  BY <1>4, CliOK
<1>5. CASE Hour \/ UNCHANGED maintVars
  BY <1>5, WindowsStand DEF Hour, maintVars, MaintInv, MaintType
<1>6. ASSUME NEW q \in Writes, Arrive(q) \/ Finish(q) PROVE MaintInv'
  <2>1. UNCHANGED <<hour, window, marker, calm>>
    BY <1>6 DEF Arrive, Finish
  <2> QED BY <2>1, WindowsStand DEF MaintInv, MaintType
<1>7. ASSUME NEW i \in Incidents, addIncidentUpdate(i) \/ \E severity \in {"sev1", "sev2"} : publishIncident(i, severity)
      PROVE  MaintInv'
  BY <1>7, WindowsStand DEF addIncidentUpdate, publishIncident, MaintInv, MaintType
<1> QED BY <1>1, <1>2, <1>3, <1>4, <1>5, <1>6, <1>7 DEF MaintNext

\* Maintenance is entered by the agreement of two, at the time agreed, by windows whose
\* plans are disjoint; it can be left while the windows alone set the marker; and the
\* status page admits it (maintenance-windows.mjs, status-page.mjs).
THEOREM MaintenanceHolds == MaintSpec => []MaintenanceSound
<1>1. MaintSpec => []MaintInv
  BY MaintStarts, MaintStep, PTL DEF MaintSpec
<1> QED BY <1>1, MaintenanceFollows, PTL

(***************************************************************************)
(* Moderation: what is disabled by decision, and who waits for an answer,  *)
(* while repositories move, go to the trash and come back.                 *)
(***************************************************************************)
CaseRow == [status : {"none", "open", "escalated", "dismissed", "actioned"}, target : Hosted \cup Places \cup {"nothing"},
            category : Categories \cup {"none"}, reports : Nat, action : {"none", "dismiss", "warn", "disable", "escalate"}]
AppealRow == [status : {"none", "open", "answered"}, at : Places \cup {"nowhere"}, about : Hosted \cup {"nothing"}]

ModerationType ==
  /\ place \in [Hosted -> Places \cup {"trash", "gone"}] /\ disabled \subseteq Hosted /\ overtaken \subseteq Hosted
  /\ case \in [CaseIds -> CaseRow] /\ appeal \in [AppealIds -> AppealRow]
  /\ decisions \in [Hosted -> SUBSET CaseIds]

\* A case is decided once: it asks for nothing while it is open, and afterwards it is not.
OpenIsUndecided == \A c \in CaseIds : case[c].status \in {"none", "open"} => case[c].action = "none"

\* An open appeal names slugs, and never the trash.
OpenAppealIsAtPlace == \A a \in AppealIds : appeal[a].status = "open" => appeal[a].at \in Places

ModerationInv == ModerationType /\ OpenIsUndecided /\ OpenAppealIsAtPlace /\ ModerationSound

LEMMA ModerationStarts == ModerationInit => ModerationInv
<1> SUFFICES ASSUME ModerationInit PROVE ModerationInv
  OBVIOUS
<1>1. ModerationType
  BY DEF ModerationInit, ModerationType, CaseRow, NoCase, AppealRow, NoAppeal
<1>2. \A c \in CaseIds : case[c].status = "none" /\ case[c].action = "none"
  BY DEF ModerationInit, NoCase
<1>3. \A a \in AppealIds : appeal[a].status = "none"
  BY DEF ModerationInit, NoAppeal
<1>4. disabled = {} /\ \A r \in Hosted : decisions[r] = {}
  BY DEF ModerationInit
<1> QED
  BY <1>1, <1>2, <1>3, <1>4
  DEF ModerationInv, OpenIsUndecided, OpenAppealIsAtPlace, ModerationSound, OneOpenCase, DisabledByDecision,
      NobodyWaitsInVain, OneOpenAppeal

\* Cases that keep what they are about and what became of them.
LEMMA CasesStand ==
  ASSUME ModerationInv, UNCHANGED <<place, disabled, appeal, decisions, overtaken, forgotten>>,
         case' \in [CaseIds -> CaseRow],
         \A c \in CaseIds : /\ case'[c].status = case[c].status /\ case'[c].target = case[c].target
                            /\ case'[c].category = case[c].category /\ case'[c].action = case[c].action
  PROVE  ModerationInv'
<1>1. ModerationType'
  BY DEF ModerationInv, ModerationType
<1>2. OpenIsUndecided' /\ OneOpenCase'
  BY DEF ModerationInv, OpenIsUndecided, ModerationSound, OneOpenCase
<1>3. DisabledByDecision'
  BY DEF ModerationInv, ModerationType, ModerationSound, DisabledByDecision
<1> QED
  BY <1>1, <1>2, <1>3 DEF ModerationInv, OpenAppealIsAtPlace, ModerationSound, NobodyWaitsInVain, OneOpenAppeal

\* What no step but the one that owns the variables can disturb.
LEMMA CaseFields ==
  ASSUME ModerationType, NEW c \in CaseIds
  PROVE  case[c] \in CaseRow /\ NoCase \in CaseRow
BY DEF ModerationType, CaseRow, NoCase

LEMMA ReportOK ==
  ASSUME ModerationInv, NEW p \in Places, NEW category \in Categories, fileAbuseReport(p, category)
  PROVE  ModerationInv'
<1> DEFINE about == findTarget(p)
           open == OpenCase(about, category)
<1>1. about \in Hosted \cup Places
  BY DEF findTarget, Live
<1>2. UNCHANGED <<place, disabled, appeal, decisions, overtaken, forgotten>>
  BY DEF fileAbuseReport
<1>3. CASE \E c \in open : case[c].reports < MaxReports /\ case' = [case EXCEPT ![c].reports = @ + 1]
  <2>1. PICK c \in CaseIds : case' = [case EXCEPT ![c].reports = @ + 1]
    BY <1>3 DEF OpenCase
  <2>2. \A d \in CaseIds : case[d] \in CaseRow
    BY DEF ModerationInv, ModerationType
  <2>3. case' \in [CaseIds -> CaseRow]
    BY <2>1, <2>2 DEF ModerationInv, ModerationType, CaseRow
  <2>4. \A d \in CaseIds : /\ case'[d].status = case[d].status /\ case'[d].target = case[d].target
                           /\ case'[d].category = case[d].category /\ case'[d].action = case[d].action
    BY <2>1, <2>2 DEF ModerationInv, ModerationType, CaseRow
  <2> QED BY <1>2, <2>3, <2>4, CasesStand
<1>4. ASSUME open = {}, NEW c \in CaseIds, case[c] = NoCase,
             case' = [case EXCEPT ![c] = [status |-> "open", target |-> about, category |-> category,
                                          reports |-> 1, action |-> "none"]]
      PROVE  ModerationInv'
  <2> DEFINE x == [status |-> "open", target |-> about, category |-> category, reports |-> 1, action |-> "none"]
  <2>1. x \in CaseRow /\ x.status = "open" /\ x.target = about /\ x.category = category /\ x.action = "none"
    BY <1>1 DEF CaseRow
  <2>2. case' = [case EXCEPT ![c] = x]
    BY <1>4
  <2> HIDE DEF x
  <2>3. case'[c] = x /\ (\A d \in CaseIds \ {c} : case'[d] = case[d]) /\ case' \in [CaseIds -> CaseRow]
    BY <2>1, <2>2 DEF ModerationInv, ModerationType
  <2>4. ModerationType'
    BY <1>2, <2>3 DEF ModerationInv, ModerationType
  <2>5. OpenIsUndecided'
    BY <2>1, <2>3 DEF ModerationInv, OpenIsUndecided
  <2>6. \A d \in CaseIds : case[d].status = "open" => case[d].target # about \/ case[d].category # category
    BY <1>4 DEF OpenCase
  <2>7. OneOpenCase'
    BY <2>1, <2>3, <2>6 DEF ModerationInv, ModerationSound, OneOpenCase
  <2>8. \A r \in Hosted : c \notin decisions[r]
    BY <1>4 DEF ModerationInv, ModerationSound, DisabledByDecision, NoCase
  <2>9. DisabledByDecision'
    BY <1>2, <2>3, <2>8 DEF ModerationInv, ModerationType, ModerationSound, DisabledByDecision
  <2> QED
    BY <1>2, <2>4, <2>5, <2>7, <2>9
    DEF ModerationInv, OpenAppealIsAtPlace, ModerationSound, NobodyWaitsInVain, OneOpenAppeal
<1> QED BY <1>3, <1>4 DEF fileAbuseReport

LEMMA ResolveOK ==
  ASSUME ModerationInv, NEW c \in CaseIds, NEW action \in {"dismiss", "warn", "disable", "escalate"},
         resolveAbuseCase(c, action)
  PROVE  ModerationInv'
<1> DEFINE r == case[c].target
           status == CASE action = "escalate" -> "escalated" [] action = "dismiss" -> "dismissed" [] OTHER -> "actioned"
           x == [case[c] EXCEPT !.action = action, !.status = status]
<1>1. case[c] \in CaseRow /\ case[c].status = "open" /\ (action = "disable" => r \in Hosted)
  BY DEF ModerationInv, ModerationType, resolveAbuseCase
<1>2. status \in {"escalated", "dismissed", "actioned"}
  OBVIOUS
<1> HIDE DEF status
<1>3. x \in CaseRow /\ x.status \notin {"open", "none"} /\ x.target = r /\ x.action = action
  BY <1>1, <1>2 DEF CaseRow
<1>4. case' = [case EXCEPT ![c] = x] /\ UNCHANGED <<place, appeal, overtaken, forgotten>>
  BY DEF resolveAbuseCase, status
<1> HIDE DEF x
<1>5. case'[c] = x /\ (\A d \in CaseIds \ {c} : case'[d] = case[d]) /\ case' \in [CaseIds -> CaseRow]
  BY <1>3, <1>4 DEF ModerationInv, ModerationType
<1>6. \/ action = "disable" /\ r \in Hosted /\ disabled' = disabled \cup {r} /\ decisions' = [decisions EXCEPT ![r] = @ \cup {c}]
      \/ UNCHANGED <<disabled, decisions>>
  BY <1>1 DEF resolveAbuseCase
<1>7. ModerationType' /\ disabled \subseteq disabled'
  BY <1>4, <1>5, <1>6 DEF ModerationInv, ModerationType
<1>8. OpenIsUndecided' /\ OneOpenCase'
  BY <1>3, <1>5 DEF ModerationInv, OpenIsUndecided, ModerationSound, OneOpenCase
<1>9. \A s \in Hosted : c \notin decisions[s]
  BY <1>1 DEF ModerationInv, OpenIsUndecided, ModerationSound, DisabledByDecision
<1>10. DisabledByDecision'
  <2> SUFFICES ASSUME NEW s \in Hosted
               PROVE  /\ s \in disabled' <=> decisions'[s] # {}
                      /\ \A d \in decisions'[s] : case'[d].target = s /\ case'[d].action = "disable"
    BY DEF DisabledByDecision
  <2>1. /\ s \in disabled <=> decisions[s] # {}
        /\ \A d \in decisions[s] : d \in CaseIds \ {c} /\ case[d].target = s /\ case[d].action = "disable"
    BY <1>9 DEF ModerationInv, ModerationType, ModerationSound, DisabledByDecision
  <2>2. \/ decisions'[s] = decisions[s] /\ (s \in disabled' <=> s \in disabled)
        \/ decisions'[s] = decisions[s] \cup {c} /\ s = r /\ action = "disable" /\ s \in disabled'
    BY <1>6 DEF ModerationInv, ModerationType
  <2> QED BY <1>3, <1>5, <2>1, <2>2
<1> QED
  BY <1>4, <1>7, <1>8, <1>10
  DEF ModerationInv, OpenAppealIsAtPlace, ModerationSound, NobodyWaitsInVain, OneOpenAppeal

LEMMA ReinstateOK ==
  ASSUME ModerationInv, NEW r \in Hosted, reinstateRepository(r)
  PROVE  ModerationInv'
<1>1. /\ r \in disabled /\ disabled' = disabled \ {r} /\ decisions' = [decisions EXCEPT ![r] = {}]
      /\ UNCHANGED <<place, case, overtaken, forgotten>>
  BY DEF reinstateRepository
<1>2. \A a \in AppealIds : /\ appeal[a] \in AppealRow
                           /\ appeal'[a] = IF a \in AppealsAnswered(r) THEN [appeal[a] EXCEPT !.status = "answered"] ELSE appeal[a]
  BY DEF ModerationInv, ModerationType, reinstateRepository
<1>3. appeal' \in [AppealIds -> AppealRow]
  BY <1>2 DEF reinstateRepository, AppealRow
<1>4. \A a \in AppealIds : appeal'[a].status = "open" => a \notin AppealsAnswered(r) /\ appeal'[a] = appeal[a]
  BY <1>2 DEF AppealRow
<1>5. ModerationType'
  BY <1>1, <1>3 DEF ModerationInv, ModerationType
<1>6. OpenIsUndecided' /\ OneOpenCase'
  BY <1>1 DEF ModerationInv, OpenIsUndecided, ModerationSound, OneOpenCase
<1>7. OpenAppealIsAtPlace' /\ OneOpenAppeal'
  BY <1>1, <1>4 DEF ModerationInv, OpenAppealIsAtPlace, ModerationSound, OneOpenAppeal
<1>8. DisabledByDecision'
  BY <1>1 DEF ModerationInv, ModerationType, ModerationSound, DisabledByDecision
<1>9. NobodyWaitsInVain'
  BY <1>1, <1>4 DEF ModerationInv, ModerationSound, NobodyWaitsInVain, AppealsAnswered
<1> QED BY <1>5, <1>6, <1>7, <1>8, <1>9 DEF ModerationInv, ModerationSound

\* Cut short, the appeals it would have answered are forgotten.
LEMMA CutShortOK ==
  ASSUME ModerationInv, NEW r \in Hosted, ReinstatementCutShort(r)
  PROVE  ModerationInv'
<1>1. /\ r \in disabled /\ disabled' = disabled \ {r} /\ decisions' = [decisions EXCEPT ![r] = {}]
      /\ forgotten' = forgotten \cup AppealsAnswered(r) /\ UNCHANGED <<place, case, appeal, overtaken>>
  BY DEF ReinstatementCutShort
<1>2. ModerationType' /\ OpenIsUndecided' /\ OneOpenCase' /\ OpenAppealIsAtPlace'
  BY <1>1 DEF ModerationInv, ModerationType, OpenIsUndecided, ModerationSound, OneOpenCase, OpenAppealIsAtPlace
<1>3. DisabledByDecision'
  BY <1>1 DEF ModerationInv, ModerationType, ModerationSound, DisabledByDecision
<1>4. NobodyWaitsInVain' /\ OneOpenAppeal'
  BY <1>1 DEF ModerationInv, ModerationSound, NobodyWaitsInVain, OneOpenAppeal, AppealsAnswered
<1> QED BY <1>2, <1>3, <1>4 DEF ModerationInv, ModerationSound

LEMMA AppealOK ==
  ASSUME ModerationInv, NEW a \in AppealIds, answerAppeal(a) \/ \E p \in Places : appealDisable(a, p)
  PROVE  ModerationInv'
<1>1. UNCHANGED <<place, disabled, case, decisions, overtaken, forgotten>>
  BY DEF answerAppeal, appealDisable
<1>2. OpenIsUndecided' /\ OneOpenCase' /\ DisabledByDecision'
  BY <1>1 DEF ModerationInv, OpenIsUndecided, ModerationSound, OneOpenCase, DisabledByDecision
<1>3. CASE answerAppeal(a)
  <2>1. appeal[a] \in AppealRow /\ appeal' = [appeal EXCEPT ![a].status = "answered"]
    BY <1>3 DEF ModerationInv, ModerationType, answerAppeal
  <2>2. appeal' \in [AppealIds -> AppealRow] /\ appeal'[a].status = "answered" /\ \A b \in AppealIds \ {a} : appeal'[b] = appeal[b]
    BY <2>1 DEF ModerationInv, ModerationType, AppealRow
  <2> QED
    BY <1>1, <1>2, <2>2
    DEF ModerationInv, ModerationType, OpenAppealIsAtPlace, ModerationSound, OneOpenAppeal, NobodyWaitsInVain
<1>4. ASSUME NEW p \in Places, appealDisable(a, p) PROVE ModerationInv'
  <2>1. PICK r \in Live(p) \cap disabled : appeal' = [appeal EXCEPT ![a] = [status |-> "open", at |-> p, about |-> r]]
    BY <1>4 DEF appealDisable
  <2>2. r \in Hosted /\ r \in disabled /\ place[r] = p
    BY <2>1 DEF Live
  <2> DEFINE x == [status |-> "open", at |-> p, about |-> r]
  <2>3. x \in AppealRow /\ x.at = p /\ x.about = r
    BY <2>2 DEF AppealRow
  <2> HIDE DEF x
  <2>4. appeal' \in [AppealIds -> AppealRow] /\ appeal'[a] = x /\ \A b \in AppealIds \ {a} : appeal'[b] = appeal[b]
    BY <2>1, <2>3 DEF ModerationInv, ModerationType, x
  <2>5. ~\E b \in AppealIds : appeal[b].status = "open" /\ appeal[b].at = p
    BY <1>4 DEF appealDisable
  <2>6. ModerationType' /\ OpenAppealIsAtPlace'
    BY <1>1, <2>3, <2>4 DEF ModerationInv, ModerationType, OpenAppealIsAtPlace
  <2>8. \A b \in AppealIds \ {a} : appeal[b].status = "open" /\ appeal[b].about = r => r \in overtaken \/ b \in forgotten
    BY <2>2, <2>5 DEF ModerationInv, ModerationSound, NobodyWaitsInVain
  <2>9. OneOpenAppeal'
    BY <1>1, <2>3, <2>4, <2>8 DEF ModerationInv, ModerationSound, OneOpenAppeal
  <2>7. NobodyWaitsInVain'
    BY <1>1, <2>2, <2>3, <2>4 DEF ModerationInv, ModerationSound, NobodyWaitsInVain
  <2> QED BY <1>2, <2>6, <2>7, <2>9 DEF ModerationInv, ModerationSound
<1> QED BY <1>3, <1>4

\* Repositories that move: whoever waits for one waits at slugs, or it was overtaken.
LEMMA PlacesOK ==
  ASSUME ModerationInv, place' \in [Hosted -> Places \cup {"trash", "gone"}], overtaken \subseteq overtaken', overtaken' \subseteq Hosted,
         UNCHANGED <<case, appeal, disabled, decisions, forgotten>>,
         \A r \in Hosted : r \in disabled /\ place[r] \in Places => place'[r] = place[r] \/ r \in overtaken'
  PROVE  ModerationInv'
<1>1. ModerationType' /\ OpenIsUndecided' /\ OneOpenCase' /\ DisabledByDecision' /\ OpenAppealIsAtPlace' /\ OneOpenAppeal'
  <2>1. ModerationType'
    BY DEF ModerationInv, ModerationType
  <2>2. OpenIsUndecided' /\ OneOpenCase' /\ DisabledByDecision'
    BY DEF ModerationInv, OpenIsUndecided, ModerationSound, OneOpenCase, DisabledByDecision
  <2>3. OpenAppealIsAtPlace' /\ OneOpenAppeal'
    BY DEF ModerationInv, ModerationSound, OpenAppealIsAtPlace, OneOpenAppeal
  <2> QED BY <2>1, <2>2, <2>3
<1>2. NobodyWaitsInVain'
  BY DEF ModerationInv, ModerationType, OpenAppealIsAtPlace, ModerationSound, NobodyWaitsInVain
<1> QED BY <1>1, <1>2 DEF ModerationInv, ModerationSound

LEMMA MoveDoneOK ==
  ASSUME ModerationInv, NEW m \in Moves, MoveDone(m)
  PROVE  ModerationInv'
<1> DEFINE r == move[m].repo
<1>1. UNCHANGED <<disabled, case, appeal, decisions, forgotten>>
  BY DEF MoveDone
<1>2. PICK p \in Places \cup {"trash"} :
        \/ place' = [place EXCEPT ![r] = p] /\ overtaken' = IF r \in disabled THEN overtaken \cup {r} ELSE overtaken
        \/ UNCHANGED <<place, overtaken>>
  BY DEF MoveDone
<1>3. place' \in [Hosted -> Places \cup {"trash", "gone"}] /\ overtaken \subseteq overtaken' /\ overtaken' \subseteq Hosted
  BY <1>2 DEF ModerationInv, ModerationType
<1>4. \A s \in Hosted : s \in disabled => place'[s] = place[s] \/ s \in overtaken'
  BY <1>2 DEF ModerationInv, ModerationType
<1> QED BY <1>1, <1>3, <1>4, PlacesOK

LEMMA RestoreOK ==
  ASSUME ModerationInv, NEW r \in Hosted, origin[r] \in Places, restoreRepository(r)
  PROVE  ModerationInv'
<1>1. place[r] = "trash" /\ place' = [place EXCEPT ![r] = origin[r]] /\ UNCHANGED <<disabled, case, appeal, decisions, overtaken, forgotten>>
  BY DEF restoreRepository
<1>2. place' \in [Hosted -> Places \cup {"trash", "gone"}]
  BY <1>1 DEF ModerationInv, ModerationType
<1>3. \A s \in Hosted : s \in disabled /\ place[s] \in Places => place'[s] = place[s]
  BY <1>1, ModerationAssumption DEF ModerationInv, ModerationType
<1> QED BY <1>1, <1>2, <1>3, PlacesOK DEF ModerationInv, ModerationType

LEMMA PurgeOK ==
  ASSUME ModerationInv, NEW r \in Hosted, purgeRepository(r)
  PROVE  ModerationInv'
<1>1. /\ place[r] = "trash" /\ place' = [place EXCEPT ![r] = "gone"] /\ disabled' = disabled \ {r}
      /\ decisions' = [decisions EXCEPT ![r] = {}] /\ UNCHANGED <<case, appeal, overtaken, forgotten>>
  BY DEF purgeRepository
<1>2. ModerationType'
  BY <1>1 DEF ModerationInv, ModerationType
<1>3. OpenIsUndecided' /\ OneOpenCase' /\ OpenAppealIsAtPlace' /\ OneOpenAppeal'
  BY <1>1 DEF ModerationInv, OpenIsUndecided, ModerationSound, OneOpenCase, OpenAppealIsAtPlace, OneOpenAppeal
<1>4. DisabledByDecision'
  BY <1>1 DEF ModerationInv, ModerationType, ModerationSound, DisabledByDecision
<1>5. NobodyWaitsInVain'
  BY <1>1, ModerationAssumption DEF ModerationInv, ModerationType, OpenAppealIsAtPlace, ModerationSound, NobodyWaitsInVain
<1> QED BY <1>2, <1>3, <1>4, <1>5 DEF ModerationInv, ModerationSound

LEMMA CreateOK ==
  ASSUME ModerationInv, NEW r \in Hosted, NEW p \in Places, CreateRepository(r, p)
  PROVE  ModerationInv'
<1>1. place[r] = "gone" /\ place' = [place EXCEPT ![r] = p] /\ UNCHANGED <<disabled, case, appeal, decisions, overtaken, forgotten>>
  BY DEF CreateRepository
<1>2. place' \in [Hosted -> Places \cup {"trash", "gone"}]
  BY <1>1 DEF ModerationInv, ModerationType
<1>3. \A s \in Hosted : s \in disabled /\ place[s] \in Places => place'[s] = place[s]
  BY <1>1, ModerationAssumption DEF ModerationInv, ModerationType
<1> QED BY <1>1, <1>2, <1>3, PlacesOK DEF ModerationInv, ModerationType

\* A transfer or a move to the trash remembers slugs, and a restore has some to give back.
Asked == {Idling} \cup [op : {"transfer", "trash"}, repo : Hosted, from : Places]
MovesMade == origin \in [Hosted -> Places] /\ move \in [Moves -> Asked]

ModerationIInv == ModerationInv /\ MovesMade

LEMMA AskOK ==
  ASSUME ModerationIInv, NEW m \in Moves, NEW r \in Hosted, NEW op \in {"transfer", "trash"}, AskToMove(m, r, op)
  PROVE  ModerationIInv'
<1>1. [op |-> op, repo |-> r, from |-> place[r]] \in Asked
  BY DEF AskToMove, Asked
<1>2. move' \in [Moves -> Asked] /\ UNCHANGED <<origin, place, disabled, case, appeal, decisions, overtaken, forgotten>>
  BY <1>1 DEF AskToMove, ModerationIInv, MovesMade
<1>3. ModerationInv'
  BY <1>2, PlacesOK DEF ModerationIInv, ModerationInv, ModerationType
<1> QED BY <1>2, <1>3 DEF ModerationIInv, MovesMade

LEMMA MovesStay ==
  ASSUME MovesMade, NEW m \in Moves, MoveDone(m)
  PROVE  MovesMade'
<1>1. move[m] \in Asked /\ move[m] # Idling
  BY DEF MovesMade, MoveDone, Idling
<1>2. move[m].from \in Places
  BY <1>1 DEF Asked
<1>3. origin' = [origin EXCEPT ![move[m].repo] = move[m].from] \/ origin' = origin
  BY DEF MoveDone
<1>4. move' = [move EXCEPT ![m] = Idling]
  BY DEF MoveDone
<1> QED BY <1>2, <1>3, <1>4 DEF MovesMade, Asked

LEMMA ModerationStep == ModerationIInv /\ [ModerationNext]_moderationVars => ModerationIInv'
<1> SUFFICES ASSUME ModerationIInv, [ModerationNext]_moderationVars PROVE ModerationIInv'
  OBVIOUS
<1> USE DEF ModerationIInv
<1>1. ASSUME NEW p \in Places, NEW category \in Categories, fileAbuseReport(p, category) PROVE ModerationIInv'
  BY <1>1, ReportOK DEF fileAbuseReport, MovesMade
<1>2. ASSUME NEW c \in CaseIds, NEW action \in {"dismiss", "warn", "disable", "escalate"}, resolveAbuseCase(c, action)
      PROVE  ModerationIInv'
  <2>1. UNCHANGED <<origin, move>>
    BY <1>2 DEF resolveAbuseCase
  <2> QED BY <1>2, <2>1, ResolveOK DEF MovesMade
<1>3. ASSUME NEW r \in Hosted, reinstateRepository(r) PROVE ModerationIInv'
  BY <1>3, ReinstateOK DEF reinstateRepository, MovesMade
<1>4. ASSUME NEW r \in Hosted, restoreRepository(r) PROVE ModerationIInv'
  BY <1>4, RestoreOK DEF restoreRepository, MovesMade
<1>5. ASSUME NEW r \in Hosted, purgeRepository(r) PROVE ModerationIInv'
  BY <1>5, PurgeOK DEF purgeRepository, MovesMade
<1>6. ASSUME NEW a \in AppealIds, answerAppeal(a) \/ \E p \in Places : appealDisable(a, p) PROVE ModerationIInv'
  BY <1>6, AppealOK DEF answerAppeal, appealDisable, MovesMade
<1>7. ASSUME NEW m \in Moves, MoveDone(m) PROVE ModerationIInv'
  BY <1>7, MoveDoneOK, MovesStay
<1>8. ASSUME NEW m \in Moves, NEW r \in Hosted, NEW op \in {"transfer", "trash"}, AskToMove(m, r, op) PROVE ModerationIInv'
  BY <1>8, AskOK
<1>9. ASSUME NEW r \in Hosted, NEW p \in Places, CreateRepository(r, p) PROVE ModerationIInv'
  BY <1>9, CreateOK DEF CreateRepository, MovesMade
<1>10. ASSUME NEW f \in Fetches, NEW r \in Hosted, NEW by \in {"http", "user key", "deploy key"}, Fetch(f, r, by)
       PROVE  ModerationIInv'
  BY <1>10, PlacesOK DEF Fetch, ModerationInv, ModerationType, MovesMade
<1>12. ASSUME NEW r \in Hosted, ReinstatementCutShort(r) PROVE ModerationIInv'
  BY <1>12, CutShortOK DEF ReinstatementCutShort, MovesMade, Asked
<1>11. CASE UNCHANGED moderationVars
  BY <1>11, PlacesOK DEF moderationVars, ModerationInv, ModerationType, MovesMade
<1> QED BY <1>1, <1>2, <1>3, <1>4, <1>5, <1>6, <1>7, <1>8, <1>9, <1>10, <1>11, <1>12 DEF ModerationNext

\* Reports of one thing are one case; a repository is disabled exactly while a decision on
\* it stands, wherever it moves; nobody waits for an answer the reinstatement was, unless it
\* was overtaken by a move or cut short by a crash; and one appeal is open at a time
\* (abuse-reports.mjs).
THEOREM ModerationHolds == ModerationSpec => []ModerationSound
<1>1. ModerationInit => ModerationIInv
  BY ModerationStarts DEF ModerationInit, ModerationIInv, MovesMade, Asked
<1>2. ModerationIInv => ModerationSound
  BY DEF ModerationIInv, ModerationInv
<1> QED BY <1>1, <1>2, ModerationStep, PTL DEF ModerationSpec

\* What is ordered stands, for maintenance and for moderation, which share no state.
THEOREM OrdersHold == MaintSpec /\ ModerationSpec => []OrdersStand
BY MaintenanceHolds, ModerationHolds, PTL DEF OrdersStand

-----------------------------------------------------------------------------
(* Backups: an archive is begun under the lock, filled up without it, taken *)
(* by the retention and read by restores, all at once.  What each process  *)
(* remembers of its archive is tied to what the file says.                 *)

RefMap == [BackedRepos -> [BackedRefs -> Nat]]

Making ==
  [at : {"listing", "bundling"}, id : 1 .. MaxArchives, rows : SUBSET BackedRepos,
   left : SUBSET BackedRepos, blobs : SUBSET Blobs, refs : RefMap, bundle : RefMap,
   tip : RefMap, moved : SUBSET (BackedRepos \X BackedRefs)]

\* An archive before its second pass and after it, when the large objects are on a volume.
Plain ==
  [exists : {TRUE}, rows : SUBSET BackedRepos, refs : RefMap, bundle : RefMap, blobRows : SUBSET Blobs,
   lfs : {"absent"}, tip : RefMap, moved : SUBSET (BackedRepos \X BackedRefs)]
Full ==
  [exists : {TRUE}, rows : SUBSET BackedRepos, refs : RefMap, bundle : RefMap, blobRows : SUBSET Blobs,
   lfs : {"inside", "outside"}, inside : SUBSET Blobs, tip : RefMap, moved : SUBSET (BackedRepos \X BackedRefs)]
Archive == Plain \cup Full

Work ==
  {NotWorking} \cup Making
    \cup [at : {"packed", "augmenting", "checking"}, id : 1 .. MaxArchives]
    \cup [at : {"repacking"}, id : 1 .. MaxArchives, copy : Archive]
    \cup [at : {"verified"}, id : 1 .. MaxArchives, to : Targets, promised : BOOLEAN]
    \cup [at : {"building"}, id : 1 .. MaxArchives, to : Targets, promised : BOOLEAN, copy : Archive]
    \cup [at : {"objects", "restored"}, id : 1 .. MaxArchives, to : Targets]
    \cup [at : {"failed"}, id : 1 .. MaxArchives, whole : BOOLEAN]

Landed ==
  [state : {"landed", "restored"}, rows : SUBSET BackedRepos, repos : RefMap, blobRows : SUBSET Blobs,
   blobs : SUBSET Blobs, promised : BOOLEAN, tip : RefMap, moved : SUBSET (BackedRepos \X BackedRefs)]

BackShape ==
  /\ repoRows \subseteq BackedRepos /\ blobRows \subseteq Blobs /\ refs \in RefMap /\ pushes \in Nat
  /\ begun \in 0 .. MaxArchives /\ listed \subseteq 1 .. begun /\ answered \subseteq 1 .. begun
  /\ act \in [Workers -> Work]
  /\ file \in [1 .. MaxArchives -> Archive \cup {NoArchiveFile}]
  /\ restored \in [Targets -> Landed \cup {NothingThere}]
  /\ drilled \in [Targets -> {"none", "passed", "failed"}]

\* A backup in the making: what did not move is still what it was at the start, in the
\* repositories and in what has been listed and bundled; one at most is listed only.
InTheMaking(m) ==
  /\ m.left \subseteq m.rows
  /\ \A r \in BackedRepos, f \in BackedRefs : <<r, f>> \notin m.moved => refs[r][f] = m.tip[r][f]
  /\ \A r \in m.rows \ m.left, f \in BackedRefs :
       <<r, f>> \notin m.moved =>
         /\ m.refs[r][f] = m.tip[r][f]
         /\ m.bundle[r] # NoRefs => m.bundle[r][f] = m.tip[r][f]
  /\ \A r \in m.left : m.bundle[r] = NoRefs
  /\ m.at = "listing" => \A r \in m.rows \ m.left : m.bundle[r] = NoRefs => m.refs[r] = NoRefs
  /\ m.at = "bundling" =>
       \E p \in m.rows \ m.left :
         /\ m.refs[p] # NoRefs /\ m.bundle[p] = NoRefs
         /\ \A r \in m.rows \ m.left : r # p /\ m.bundle[r] = NoRefs => m.refs[r] = NoRefs

ArchiveIsTrue(a) ==
  /\ \A r \in a.rows, f \in BackedRefs : <<r, f>> \notin a.moved => a.bundle[r][f] = a.tip[r][f]
  /\ a.lfs = "inside" => a.inside = a.blobRows

\* What a process at work may rely on.
WorkIsTrue(x) ==
  /\ x.at # "idle" => x.id <= begun
  /\ x.at \in {"listing", "bundling"} =>
       InTheMaking(x) /\ ~ file[x.id].exists /\ x.id \notin answered
  /\ x.at \in {"repacking", "building"} => ArchiveIsTrue(x.copy)
  /\ x.at = "checking" /\ file[x.id].exists => file[x.id].lfs # "absent"
  /\ x.at \in {"verified", "building"} /\ x.promised => x.id \in answered
  /\ x.at = "building" => restored[x.to] = NothingThere
  /\ x.at = "objects" => /\ restored[x.to].state = "landed"
                         /\ restored[x.to].promised => x.id \in answered
  /\ x.at = "restored" => restored[x.to].state = "restored"
  /\ x.at = "failed" /\ x.whole => x.id \in Bucketed

\* Nobody else has to do with an archive that is being begun, or with a target that
\* still waits for its large objects.
WorkApart(x, y) ==
  /\ x.at \in {"listing", "bundling"} /\ y.at # "idle" => x.id # y.id
  /\ x.at = "objects" /\ y.at = "objects" => x.to # y.to

UnderLock == {"listing", "bundling", "packed", "building"}

WorkersOK ==
  /\ \A w \in Workers : WorkIsTrue(act[w]) /\ (act[w].at \in UnderLock => backupLock = w)
  /\ \A v, w \in Workers : v # w => WorkApart(act[v], act[w])

FilesOK ==
  /\ \A k \in 1 .. MaxArchives :
       file[k].exists => /\ k <= begun /\ ArchiveIsTrue(file[k])
                         /\ file[k].lfs = "outside" => k \in Bucketed
  /\ \A k \in answered : file[k].exists => file[k].lfs # "absent"

\* The archive of a number names the same large objects wherever it is read.
NamesOf(base, x) ==
  /\ x.at \in {"repacking", "building"} => x.copy.blobRows = base[x.id]
  /\ x.at = "objects" => restored[x.to].blobRows = base[x.id]
Named(base) ==
  /\ \A k \in 1 .. MaxArchives : file[k].exists => file[k].blobRows = base[k]
  /\ \A w \in Workers : NamesOf(base, act[w])
SameNames == \E base \in [1 .. MaxArchives -> SUBSET Blobs] : Named(base)

TargetsOK ==
  /\ \A t \in Targets : restored[t] # NothingThere => StillAsItWas(restored[t])
  /\ \A t \in Targets : restored[t].state = "restored" /\ restored[t].promised
                          => restored[t].blobs = restored[t].blobRows
  /\ \A t \in Targets : drilled[t] = "passed" =>
       restored[t].state = "restored" /\ restored[t].blobRows \subseteq restored[t].blobs

BackInv == BackShape /\ WorkersOK /\ FilesOK /\ SameNames /\ TargetsOK /\ NewestIsThere

-----------------------------------------------------------------------------
LEMMA BackupsHold == BackInv => BackupsSound
<1> SUFFICES ASSUME BackInv PROVE BackupsSound
  OBVIOUS
<1>1. \A t \in Targets : restored[t].state = "restored" => restored[t] # NothingThere
  BY DEF NothingThere
<1>2. RestoredWhole
  BY <1>1 DEF BackInv, TargetsOK, RestoredWhole
<1>3. PassedIsServiceable
  BY <1>1 DEF BackInv, TargetsOK, PassedIsServiceable
<1>4. VolumeRestores
  BY DEF BackInv, WorkersOK, WorkIsTrue, VolumeRestores
<1>5. AloneUnderLock
  <2> DEFINE S == {w \in Workers : act[w].at \in {"listing", "bundling", "packed", "building"}}
  <2>1. \A v, w \in S : v = w
    BY DEF BackInv, WorkersOK, UnderLock
  <2>2. S = {} \/ \E w : S = {w}
    BY <2>1
  <2>3. Cardinality(S) <= 1
    <3> HIDE DEF S
    <3>1. CASE S = {}
      BY <3>1, FS_EmptySet
    <3>2. ASSUME NEW w, S = {w} PROVE Cardinality(S) <= 1
      <4>1. Cardinality({w}) = 1
        BY FS_Singleton
      <4> QED BY <3>2, <4>1
    <3> QED BY <2>2, <3>1, <3>2
  <2> QED BY <2>3 DEF AloneUnderLock
<1> QED BY <1>2, <1>3, <1>4, <1>5 DEF BackInv, BackupsSound

LEMMA BackStarts == BackupsInit => BackInv
<1> SUFFICES ASSUME BackupsInit PROVE BackInv
  OBVIOUS
<1>1. BackShape
  BY BackupsAssumption DEF BackupsInit, BackShape, RefMap, Work, NotWorking
<1>2. WorkersOK
  BY DEF BackupsInit, WorkersOK, WorkIsTrue, WorkApart, NotWorking, UnderLock
<1>3. FilesOK
  BY DEF BackupsInit, FilesOK, NoArchiveFile
<1>4. SameNames
  <2>1. Named([k \in 1 .. MaxArchives |-> {}])
    BY DEF BackupsInit, Named, NamesOf, NotWorking, NoArchiveFile
  <2> QED BY <2>1 DEF SameNames
<1>5. TargetsOK /\ NewestIsThere
  BY DEF BackupsInit, TargetsOK, NewestIsThere, NothingThere
<1> QED BY <1>1, <1>2, <1>3, <1>4, <1>5 DEF BackInv

-----------------------------------------------------------------------------
\* What a step of one process leaves true for the others.
LEMMA OneWorker ==
  ASSUME WorkersOK, act \in [Workers -> Work], NEW w \in Workers, NEW x,
         act' = [act EXCEPT ![w] = x], WorkIsTrue(x)',
         x.at \in UnderLock => backupLock' = w,
         \A v \in Workers \ {w} : act[v].at \in UnderLock => backupLock' = backupLock,
         \A v \in Workers \ {w} : WorkApart(act[v], x) /\ WorkApart(x, act[v]),
         \A v \in Workers \ {w} : \A y : y = act[v] => WorkIsTrue(y)'
  PROVE  WorkersOK'
<1>1. act'[w] = x /\ \A v \in Workers \ {w} : act'[v] = act[v]
  OBVIOUS
<1>2. \A v \in Workers : WorkIsTrue(act[v])'
  <2> SUFFICES ASSUME NEW v \in Workers PROVE WorkIsTrue(act[v])'
    OBVIOUS
  <2>1. PICK y : y = act'[v]
    OBVIOUS
  <2>2. WorkIsTrue(y)'
    <3>1. CASE v = w
      BY <1>1, <2>1, <3>1
    <3>2. CASE v # w
      BY <1>1, <2>1, <3>2
    <3> QED BY <3>1, <3>2
  <2> QED BY <2>1, <2>2 DEF WorkIsTrue, InTheMaking, ArchiveIsTrue
<1>3. \A v \in Workers : act'[v].at \in UnderLock => backupLock' = v
  BY <1>1 DEF WorkersOK
<1>4. \A u, v \in Workers : u # v => WorkApart(act'[u], act'[v])
  BY <1>1 DEF WorkersOK
<1>5. \A u, v \in Workers : u # v => WorkApart(act[u], act[v])'
  BY <1>4 DEF WorkApart
<1> QED BY <1>2, <1>3, <1>5 DEF WorkersOK

\* What a process relies on while others write files, answer and restore.
LEMMA StillTrue ==
  ASSUME NEW y \in Work, WorkIsTrue(y), begun \in Nat, begun' \in {begun, begun + 1}, UNCHANGED refs,
         answered \subseteq answered',
         y.at \in {"listing", "bundling"} => ~ file'[y.id].exists /\ y.id \notin answered',
         y.at = "checking" /\ file'[y.id].exists => file'[y.id].lfs # "absent",
         y.at = "building" => restored'[y.to] = NothingThere,
         y.at \in {"objects", "restored"} => restored'[y.to] = restored[y.to]
  PROVE  WorkIsTrue(y)'
<1>1. y.at # "idle" => y.id <= begun'
  <2>1. y.at # "idle" => y.id \in Nat
    BY BackupsAssumption DEF Work, Making, NotWorking
  <2> QED BY <2>1 DEF WorkIsTrue
<1>2. y.at \in {"listing", "bundling"} => InTheMaking(y)'
  BY DEF WorkIsTrue, InTheMaking
<1>3. y.at \in {"repacking", "building"} => ArchiveIsTrue(y.copy)'
  BY DEF WorkIsTrue, ArchiveIsTrue
<1>4. y.at \in {"verified", "building"} /\ y.promised => y.id \in answered'
  BY DEF WorkIsTrue
<1>5. y.at = "objects" => restored'[y.to].state = "landed" /\ (restored'[y.to].promised => y.id \in answered')
  BY DEF WorkIsTrue
<1>6. y.at = "restored" => restored'[y.to].state = "restored"
  BY DEF WorkIsTrue
<1>7. y.at = "failed" /\ y.whole => y.id \in Bucketed
  BY DEF WorkIsTrue
<1> QED BY <1>1, <1>2, <1>3, <1>4, <1>5, <1>6, <1>7 DEF WorkIsTrue

\* A step that writes no file and restores nothing.
LEMMA WorkerActs ==
  ASSUME BackInv, NEW w \in Workers, NEW x \in Work, act' = [act EXCEPT ![w] = x],
         begun' \in {begun, begun + 1}, begun' \in 0 .. MaxArchives,
         UNCHANGED <<repoRows, refs, pushes, blobRows, file, restored>>,
         listed' \subseteq 1 .. begun', NewestIsThere',
         answered \subseteq answered', answered' \subseteq 1 .. begun',
         \A k \in answered' \ answered : file[k].exists => file[k].lfs # "absent",
         \A v \in Workers \ {w} : act[v].at \in {"listing", "bundling"} => act[v].id \notin answered',
         drilled' \in [Targets -> {"none", "passed", "failed"}],
         \A t \in Targets : drilled'[t] = "passed" =>
           restored[t].state = "restored" /\ restored[t].blobRows \subseteq restored[t].blobs,
         WorkIsTrue(x)', x.at \in UnderLock => backupLock' = w,
         \A v \in Workers \ {w} : act[v].at \in UnderLock => backupLock' = backupLock,
         \A v \in Workers \ {w} : WorkApart(act[v], x) /\ WorkApart(x, act[v]),
         \A base \in [1 .. MaxArchives -> SUBSET Blobs] : Named(base) => NamesOf(base, x)
  PROVE  BackInv'
<1>1. act \in [Workers -> Work] /\ begun \in Nat /\ begun' \in Nat /\ begun <= begun'
  BY BackupsAssumption DEF BackInv, BackShape
<1>2. act'[w] = x /\ act' \in [Workers -> Work] /\ \A v \in Workers \ {w} : act'[v] = act[v]
  BY <1>1
<1>3. BackShape'
  BY <1>2 DEF BackInv, BackShape
<1>4. WorkersOK'
  <2>1. \A v \in Workers \ {w} : \A y : y = act[v] => WorkIsTrue(y)'
    <3> SUFFICES ASSUME NEW v \in Workers \ {w}, NEW y, y = act[v] PROVE WorkIsTrue(y)'
      OBVIOUS
    <3>1. y \in Work /\ WorkIsTrue(y)
      BY <1>1 DEF BackInv, WorkersOK
    <3>2. y.at \in {"listing", "bundling"} => ~ file'[y.id].exists /\ y.id \notin answered'
      BY <3>1 DEF WorkIsTrue
    <3>3. y.at = "checking" /\ file'[y.id].exists => file'[y.id].lfs # "absent"
      BY <3>1 DEF WorkIsTrue
    <3>4. y.at = "building" => restored'[y.to] = NothingThere
      BY <3>1 DEF WorkIsTrue
    <3> QED BY <1>1, <3>1, <3>2, <3>3, <3>4, StillTrue
  <2> QED BY <1>1, <2>1, OneWorker DEF BackInv
<1>5. FilesOK'
  <2>1. \A k \in 1 .. MaxArchives : k <= begun => k <= begun'
    BY <1>1, BackupsAssumption
  <2>2. \A k \in answered' : file[k].exists => file[k].lfs # "absent"
    BY DEF BackInv, FilesOK
  <2> QED BY <2>1, <2>2 DEF BackInv, FilesOK, ArchiveIsTrue
<1>6. SameNames'
  <2>1. PICK base \in [1 .. MaxArchives -> SUBSET Blobs] : Named(base)
    BY DEF BackInv, SameNames
  <2>2. NamesOf(base, x)
    BY <2>1
  <2>3. Named(base)'
    BY <1>2, <2>1, <2>2 DEF Named, NamesOf
  <2> QED BY <2>3 DEF SameNames
<1>7. TargetsOK'
  BY DEF BackInv, TargetsOK, StillAsItWas
<1> QED BY <1>3, <1>4, <1>5, <1>6, <1>7 DEF BackInv

\* A step that leaves no trace but in the process that takes it.
LEMMA WorkerMoves ==
  ASSUME BackInv, NEW w \in Workers, NEW x \in Work, act' = [act EXCEPT ![w] = x],
         begun' \in {begun, begun + 1}, begun' \in 0 .. MaxArchives,
         UNCHANGED <<repoRows, refs, pushes, blobRows, file, listed, answered, restored, drilled>>,
         WorkIsTrue(x)', x.at \in UnderLock => backupLock' = w,
         \A v \in Workers \ {w} : act[v].at \in UnderLock => backupLock' = backupLock,
         \A v \in Workers \ {w} : WorkApart(act[v], x) /\ WorkApart(x, act[v]),
         \A base \in [1 .. MaxArchives -> SUBSET Blobs] : Named(base) => NamesOf(base, x)
  PROVE  BackInv'
<1>1. listed' \subseteq 1 .. begun' /\ answered' \subseteq 1 .. begun'
  <2>1. begun \in Nat /\ 1 .. begun \subseteq 1 .. begun'
    BY BackupsAssumption DEF BackInv, BackShape
  <2> QED BY <2>1 DEF BackInv, BackShape
<1>2. NewestIsThere'
  BY DEF BackInv, NewestIsThere, Newer
<1>3. drilled' \in [Targets -> {"none", "passed", "failed"}]
  BY DEF BackInv, BackShape
<1>4. \A t \in Targets : drilled'[t] = "passed" =>
        restored[t].state = "restored" /\ restored[t].blobRows \subseteq restored[t].blobs
  BY DEF BackInv, TargetsOK
<1>5. \A v \in Workers \ {w} : act[v].at \in {"listing", "bundling"} => act[v].id \notin answered'
  BY DEF BackInv, WorkersOK, WorkIsTrue
<1>6. answered \subseteq answered' /\ \A k \in answered' \ answered : file[k].exists => file[k].lfs # "absent"
  OBVIOUS
<1>7. UNCHANGED <<repoRows, refs, pushes, blobRows, file, restored>>
  OBVIOUS
<1> QED BY <1>1, <1>2, <1>3, <1>4, <1>5, <1>6, <1>7, WorkerActs

\* A process gives up, dies, or is done.
LEMMA StopsOK ==
  ASSUME BackInv, NEW w \in Workers, act' = [act EXCEPT ![w] = NotWorking],
         \A v \in Workers \ {w} : backupLock = v => backupLock' = v,
         UNCHANGED <<repoRows, refs, pushes, blobRows, file, listed, begun, answered, restored, drilled>>
  PROVE  BackInv'
<1>1. NotWorking \in Work
  BY DEF Work
<1>2. PICK x : x = NotWorking
  OBVIOUS
<1>3. x.at = "idle"
  BY <1>2 DEF NotWorking
<1>4. WorkIsTrue(x)' /\ (x.at \in UnderLock => backupLock' = w)
  BY <1>3 DEF WorkIsTrue, UnderLock
<1>5. \A v \in Workers \ {w} : WorkApart(act[v], x) /\ WorkApart(x, act[v])
  BY <1>3 DEF WorkApart
<1>6. \A base \in [1 .. MaxArchives -> SUBSET Blobs] : NamesOf(base, x)
  BY <1>3 DEF NamesOf
<1>7. begun' \in 0 .. MaxArchives /\ begun' \in {begun, begun + 1}
  BY DEF BackInv, BackShape
<1>8. \A v \in Workers \ {w} : act[v].at \in UnderLock => backupLock' = backupLock
  BY DEF BackInv, WorkersOK
<1> QED BY <1>1, <1>2, <1>4, <1>5, <1>6, <1>7, <1>8, WorkerMoves

LEMMA GivesUpOK ==
  ASSUME BackInv, NEW w \in Workers, GivesUp(w),
         UNCHANGED <<repoRows, refs, pushes, blobRows, file, listed, begun, answered, restored, drilled>>
  PROVE  BackInv'
BY StopsOK DEF GivesUp

LEMMA DiesOK ==
  ASSUME BackInv, NEW w \in Workers, WorkerDies(w) \/ EndRestore(w)
  PROVE  BackInv'
BY StopsOK DEF WorkerDies, EndRestore, liveVars

\* The lock is free only when nobody is under it.
LEMMA FreeForAll ==
  ASSUME BackInv, backupLock = "free" \/ backupLock = "left"
  PROVE  \A v \in Workers : act[v].at \notin UnderLock
BY BackupsAssumption DEF BackInv, WorkersOK

\* A backup begins: nothing has moved under it yet, and its number is a new one.
LEMMA BackupBeginsOK ==
  ASSUME BackInv, NEW w \in Workers, createDatabaseSnapshot(w)
  PROVE  BackInv'
<1>1. PICK x : x = [at |-> "listing", id |-> begun + 1, rows |-> repoRows, left |-> repoRows, blobs |-> blobRows,
                    refs |-> [r \in BackedRepos |-> NoRefs], bundle |-> [r \in BackedRepos |-> NoRefs],
                    tip |-> refs, moved |-> {}]
  OBVIOUS
<1>2. /\ act' = [act EXCEPT ![w] = x] /\ backupLock = "free" /\ backupLock' = w
      /\ begun < MaxArchives /\ begun' = begun + 1
      /\ UNCHANGED <<repoRows, refs, pushes, blobRows, file, listed, answered, restored, drilled>>
  BY <1>1 DEF createDatabaseSnapshot, acquireBackupLock, liveVars
<1>3. begun \in Nat /\ MaxArchives \in Nat /\ begun + 1 \in 1 .. MaxArchives
  BY <1>2, BackupsAssumption DEF BackInv, BackShape
<1>4. [r \in BackedRepos |-> NoRefs] \in RefMap
  BY DEF RefMap, NoRefs
<1>5. x \in Making
  BY <1>1, <1>3, <1>4 DEF Making, BackInv, BackShape
<1>6. x.at = "listing" /\ x.id = begun + 1 /\ x.rows = repoRows /\ x.left = repoRows /\ x.tip = refs /\ x.moved = {}
      /\ \A r \in BackedRepos : x.bundle[r] = NoRefs
  BY <1>1
<1>7. InTheMaking(x)'
  BY <1>2, <1>6 DEF InTheMaking, BackInv, BackShape
<1>8. ~ file[x.id].exists /\ x.id \notin answered
  BY <1>3, <1>6 DEF BackInv, BackShape, FilesOK
<1>9. WorkIsTrue(x)'
  BY <1>2, <1>3, <1>6, <1>7, <1>8 DEF WorkIsTrue
<1>10. \A v \in Workers \ {w} : WorkApart(act[v], x) /\ WorkApart(x, act[v])
  <2> SUFFICES ASSUME NEW v \in Workers \ {w} PROVE WorkApart(act[v], x) /\ WorkApart(x, act[v])
    OBVIOUS
  <2>1. act[v].at # "idle" => act[v].id <= begun
    BY DEF BackInv, WorkersOK, WorkIsTrue
  <2>2. act[v].at \notin UnderLock
    BY <1>2, FreeForAll
  <2>3. act[v].at # "idle" => act[v].id # x.id
    BY <1>3, <1>6, <2>1
  <2> QED BY <1>6, <2>2, <2>3 DEF WorkApart, UnderLock
<1>11. \A base \in [1 .. MaxArchives -> SUBSET Blobs] : NamesOf(base, x)
  BY <1>6 DEF NamesOf
<1>12. \A v \in Workers \ {w} : act[v].at \in UnderLock => backupLock' = backupLock
  BY <1>2, FreeForAll
<1>13. x \in Work
  BY <1>5 DEF Work
<1>14. begun' \in {begun, begun + 1} /\ begun' \in 0 .. MaxArchives
  BY <1>2, <1>3
<1> QED BY <1>2, <1>9, <1>10, <1>11, <1>12, <1>13, <1>14, WorkerMoves

\* A backup that goes on with its repositories.
LEMMA GoesOn ==
  ASSUME BackInv, NEW w \in Workers, act[w].at \in {"listing", "bundling"},
         NEW x \in Making, x.id = act[w].id, InTheMaking(x), act' = [act EXCEPT ![w] = x],
         UNCHANGED <<repoRows, refs, pushes, blobRows, file, listed, begun, answered, restored, drilled, backupLock>>
  PROVE  BackInv'
<1>1. x \in Work /\ x.at \in {"listing", "bundling"} /\ begun' \in 0 .. MaxArchives
  BY DEF Work, Making, BackInv, BackShape
<1>2. WorkIsTrue(act[w]) /\ backupLock = w
  BY DEF BackInv, WorkersOK, UnderLock
<1>3. WorkIsTrue(x)
  BY <1>1, <1>2 DEF WorkIsTrue
<1>4. WorkIsTrue(x)'
  BY <1>1, <1>3 DEF WorkIsTrue, InTheMaking
<1>5. \A v \in Workers \ {w} : WorkApart(act[v], x) /\ WorkApart(x, act[v])
  <2> SUFFICES ASSUME NEW v \in Workers \ {w} PROVE WorkApart(act[v], x) /\ WorkApart(x, act[v])
    OBVIOUS
  <2>1. WorkApart(act[v], act[w]) /\ WorkApart(act[w], act[v])
    BY DEF BackInv, WorkersOK
  <2> QED BY <1>1, <2>1 DEF WorkApart
<1>6. \A base \in [1 .. MaxArchives -> SUBSET Blobs] : NamesOf(base, x)
  BY <1>1 DEF NamesOf
<1> QED BY <1>1, <1>2, <1>4, <1>5, <1>6, WorkerMoves

LEMMA MakerIs ==
  ASSUME BackInv, NEW w \in Workers, act[w].at \in {"listing", "bundling"}
  PROVE  act[w] \in Making /\ InTheMaking(act[w])
<1>1. act[w] \in Work
  BY DEF BackInv, BackShape
<1>2. act[w] \in Making
  BY <1>1 DEF Work, NotWorking
<1> QED BY <1>2 DEF BackInv, WorkersOK, WorkIsTrue

LEMMA ListOK ==
  ASSUME BackInv, NEW w \in Workers, NEW r \in BackedRepos, ListReferences(w, r)
  PROVE  BackInv'
<1>1. PICK m : m = act[w]
  OBVIOUS
<1>2. m \in Making /\ InTheMaking(m) /\ m.at = "listing" /\ r \in m.left
  BY <1>1, MakerIs DEF ListReferences
<1>3. UNCHANGED <<repoRows, refs, pushes, blobRows, file, listed, begun, answered, restored, drilled>>
  BY DEF ListReferences, liveVars
<1>4. CASE GivesUp(w)
  BY <1>3, <1>4, GivesUpOK
<1>5. CASE UNCHANGED backupLock /\
           act' = [act EXCEPT ![w] = [act[w] EXCEPT !.refs[r] = refs[r], !.left = @ \ {r},
                     !.at = IF refs[r] = NoRefs THEN "listing" ELSE "bundling"]]
  <2>1. PICK x : x = [m EXCEPT !.refs[r] = refs[r], !.left = @ \ {r},
                      !.at = IF refs[r] = NoRefs THEN "listing" ELSE "bundling"]
    OBVIOUS
  <2>2. act' = [act EXCEPT ![w] = x]
    BY <1>1, <1>5, <2>1
  <2>3. m.refs \in RefMap /\ refs \in RefMap /\ [m.refs EXCEPT ![r] = refs[r]] \in RefMap
    BY <1>2 DEF Making, BackInv, BackShape, RefMap
  <2>4. x \in Making /\ x.id = m.id /\ x.rows = m.rows /\ x.left = m.left \ {r} /\ x.tip = m.tip
        /\ x.moved = m.moved /\ x.bundle = m.bundle
        /\ x.refs = [m.refs EXCEPT ![r] = refs[r]]
        /\ x.at = IF refs[r] = NoRefs THEN "listing" ELSE "bundling"
    BY <1>2, <2>1, <2>3 DEF Making
  <2>5. /\ \A q \in BackedRepos : x.refs[q] = IF q = r THEN refs[r] ELSE m.refs[q]
        /\ r \in m.rows /\ m.rows \subseteq BackedRepos
        /\ x.rows \ x.left = (m.rows \ m.left) \cup {r}
    BY <1>2, <2>3, <2>4 DEF RefMap, InTheMaking, Making
  <2>6. \A q \in x.rows \ x.left, f \in BackedRefs :
          <<q, f>> \notin x.moved =>
            /\ x.refs[q][f] = x.tip[q][f]
            /\ x.bundle[q] # NoRefs => x.bundle[q][f] = x.tip[q][f]
    BY <1>2, <2>4, <2>5 DEF InTheMaking
  <2>7. x.at = "listing" => \A q \in x.rows \ x.left : x.bundle[q] = NoRefs => x.refs[q] = NoRefs
    BY <1>2, <2>4, <2>5 DEF InTheMaking
  <2>8. x.at = "bundling" =>
          \E p \in x.rows \ x.left :
            /\ x.refs[p] # NoRefs /\ x.bundle[p] = NoRefs
            /\ \A q \in x.rows \ x.left : q # p /\ x.bundle[q] = NoRefs => x.refs[q] = NoRefs
    BY <1>2, <2>4, <2>5 DEF InTheMaking
  <2>9. InTheMaking(x)
    BY <1>2, <2>4, <2>6, <2>7, <2>8 DEF InTheMaking
  <2> QED BY <1>1, <1>2, <1>3, <1>5, <2>2, <2>4, <2>9, GoesOn
<1> QED BY <1>4, <1>5 DEF ListReferences

LEMMA BundleOK ==
  ASSUME BackInv, NEW w \in Workers, BundleRepository(w)
  PROVE  BackInv'
<1>1. PICK m : m = act[w]
  OBVIOUS
<1>2. m \in Making /\ InTheMaking(m) /\ m.at = "bundling"
  BY <1>1, MakerIs DEF BundleRepository
<1>3. UNCHANGED <<repoRows, refs, pushes, blobRows, file, listed, begun, answered, restored, drilled>>
  BY DEF BundleRepository, liveVars
<1>4. PICK r : r = Listed(w)
  OBVIOUS
<1>5. PICK p \in m.rows \ m.left :
        /\ m.refs[p] # NoRefs /\ m.bundle[p] = NoRefs
        /\ \A q \in m.rows \ m.left : q # p /\ m.bundle[q] = NoRefs => m.refs[q] = NoRefs
  BY <1>2 DEF InTheMaking
<1>6. r = p
  <2>1. Listed(w) \in m.rows \ m.left /\ m.refs[Listed(w)] # NoRefs /\ m.bundle[Listed(w)] = NoRefs
    BY <1>1, <1>5 DEF Listed
  <2> QED BY <1>4, <1>5, <2>1
<1>7. r \in BackedRepos
  BY <1>2, <1>5, <1>6 DEF Making
<1>8. CASE GivesUp(w)
  BY <1>3, <1>8, GivesUpOK
<1>9. CASE refs[r] # NoRefs /\ UNCHANGED backupLock /\
           act' = [act EXCEPT ![w] = [@ EXCEPT !.bundle[r] = refs[r], !.at = "listing"]]
  <2>1. PICK x : x = [m EXCEPT !.bundle = [m.bundle EXCEPT ![r] = refs[r]], !.at = "listing"]
    OBVIOUS
  <2>2. act' = [act EXCEPT ![w] = x]
    BY <1>1, <1>2, <1>9, <2>1 DEF BackInv, BackShape, Making
  <2>3. m.bundle \in RefMap /\ refs \in RefMap /\ [m.bundle EXCEPT ![r] = refs[r]] \in RefMap
    BY <1>2, <1>7 DEF Making, BackInv, BackShape, RefMap
  <2>4. x \in Making /\ x.id = m.id /\ x.rows = m.rows /\ x.left = m.left /\ x.tip = m.tip
        /\ x.moved = m.moved /\ x.refs = m.refs /\ x.at = "listing"
        /\ x.bundle = [m.bundle EXCEPT ![r] = refs[r]]
    BY <1>2, <2>1, <2>3 DEF Making
  <2>5. /\ \A q \in BackedRepos : x.bundle[q] = IF q = r THEN refs[r] ELSE m.bundle[q]
        /\ m.rows \subseteq BackedRepos
    BY <1>2, <2>3, <2>4 DEF RefMap, Making
  <2>6. InTheMaking(x)
    BY <1>2, <1>5, <1>6, <1>7, <1>9, <2>4, <2>5 DEF InTheMaking
  <2> QED BY <1>1, <1>2, <1>3, <1>9, <2>2, <2>4, <2>6, GoesOn
<1> QED BY <1>4, <1>8, <1>9 DEF BundleRepository

\* References move under a backup, and it notes which.
LEMMA LiveOK ==
  ASSUME BackInv, NEW M \in SUBSET (BackedRepos \X BackedRefs),
         \A r \in BackedRepos, f \in BackedRefs : <<r, f>> \notin M => refs'[r][f] = refs[r][f],
         refs' \in RefMap, repoRows' \subseteq repoRows, pushes' \in Nat,
         act' = [w \in Workers |-> IF act[w].at \in {"listing", "bundling"}
                                   THEN [act[w] EXCEPT !.moved = @ \cup M] ELSE act[w]],
         UNCHANGED <<blobRows, backupLock, file, listed, begun, answered, restored, drilled>>
  PROVE  BackInv'
<1>1. ASSUME NEW w \in Workers, act[w].at \in {"listing", "bundling"}
      PROVE  \E x \in Making :
               /\ act'[w] = x /\ x.at = act[w].at /\ x.id = act[w].id /\ x.rows = act[w].rows /\ x.left = act[w].left
               /\ x.refs = act[w].refs /\ x.bundle = act[w].bundle /\ x.tip = act[w].tip
               /\ x.moved = act[w].moved \cup M
  <2>1. act[w] \in Making
    BY <1>1, MakerIs
  <2>2. PICK x : x = [act[w] EXCEPT !.moved = @ \cup M]
    OBVIOUS
  <2>3. act'[w] = x
    BY <1>1, <2>2
  <2>4. x \in Making /\ x.at = act[w].at /\ x.id = act[w].id /\ x.rows = act[w].rows /\ x.left = act[w].left
        /\ x.refs = act[w].refs /\ x.bundle = act[w].bundle /\ x.tip = act[w].tip
        /\ x.moved = act[w].moved \cup M
    BY <2>1, <2>2 DEF Making
  <2> QED BY <2>3, <2>4
<1>2. \A w \in Workers : act[w].at \notin {"listing", "bundling"} => act'[w] = act[w]
  OBVIOUS
<1>3. \A w \in Workers : act'[w] \in Work /\ act'[w].at = act[w].at
  <2>1. \A w \in Workers : act[w] \in Work
    BY DEF BackInv, BackShape
  <2>2. Making \subseteq Work
    BY DEF Work
  <2> QED BY <1>1, <1>2, <2>1, <2>2
<1>4. BackShape'
  <2>1. act' \in [Workers -> Work]
    BY <1>3
  <2> QED BY <2>1 DEF BackInv, BackShape
<1>5. \A w \in Workers : WorkIsTrue(act[w])'
  <2> SUFFICES ASSUME NEW w \in Workers PROVE WorkIsTrue(act[w])'
    OBVIOUS
  <2>1. WorkIsTrue(act[w])
    BY DEF BackInv, WorkersOK
  <2>2. CASE act[w].at \in {"listing", "bundling"}
    <3>1. PICK x \in Making :
               /\ act'[w] = x /\ x.at = act[w].at /\ x.id = act[w].id /\ x.rows = act[w].rows /\ x.left = act[w].left
               /\ x.refs = act[w].refs /\ x.bundle = act[w].bundle /\ x.tip = act[w].tip
               /\ x.moved = act[w].moved \cup M
      BY <1>1, <2>2
    <3>2. InTheMaking(act[w]) /\ act[w] \in Making
      BY <2>2, MakerIs
    <3>3. x.rows \subseteq BackedRepos
      BY DEF Making
    <3>4. InTheMaking(x)'
      BY <3>1, <3>2, <3>3 DEF InTheMaking
    <3>5. WorkIsTrue(x)'
      BY <2>1, <2>2, <3>1, <3>4 DEF WorkIsTrue
    <3> QED BY <3>1, <3>5 DEF WorkIsTrue, InTheMaking, ArchiveIsTrue
  <2>3. CASE act[w].at \notin {"listing", "bundling"}
    BY <1>2, <2>1, <2>3 DEF WorkIsTrue, ArchiveIsTrue
  <2> QED BY <2>2, <2>3
<1>6. WorkersOK'
  <2>1. \A w \in Workers : act'[w].at # "idle" => act'[w].id = act[w].id
    BY <1>1, <1>2
  <2>2. \A w \in Workers : act'[w].at = "objects" => act'[w] = act[w]
    BY <1>2, <1>3
  <2>3. \A v, w \in Workers : v # w => WorkApart(act[v], act[w])
    BY DEF BackInv, WorkersOK
  <2>4. \A v, w \in Workers : v # w => WorkApart(act[v], act[w])'
    BY <1>3, <2>1, <2>2, <2>3 DEF WorkApart
  <2>5. \A w \in Workers : act'[w].at \in UnderLock => backupLock' = w
    BY <1>3 DEF BackInv, WorkersOK
  <2> QED BY <1>5, <2>4, <2>5 DEF WorkersOK
<1>7. SameNames'
  <2>1. PICK base \in [1 .. MaxArchives -> SUBSET Blobs] : Named(base)
    BY DEF BackInv, SameNames
  <2>2. \A w \in Workers : act'[w].at \in {"repacking", "building", "objects"} => act'[w] = act[w]
    BY <1>2, <1>3
  <2>3. Named(base)'
    BY <2>1, <2>2, <1>3 DEF Named, NamesOf
  <2> QED BY <2>3 DEF SameNames
<1>8. FilesOK' /\ TargetsOK' /\ NewestIsThere'
  BY DEF BackInv, FilesOK, ArchiveIsTrue, TargetsOK, StillAsItWas, NewestIsThere, Newer
<1> QED BY <1>4, <1>6, <1>7, <1>8 DEF BackInv

LEMMA PushOK ==
  ASSUME BackInv, NEW r \in BackedRepos, NEW f \in BackedRefs, PushLands(r, f)
  PROVE  BackInv'
<1>1. PICK tip \in {0, pushes + 1} : refs' = [refs EXCEPT ![r][f] = tip]
  BY DEF PushLands
<1>2. refs \in RefMap /\ pushes \in Nat /\ tip \in Nat /\ pushes' \in Nat
  BY DEF BackInv, BackShape, PushLands
<1>3. refs' \in RefMap
  BY <1>1, <1>2 DEF RefMap
<1>4. \A q \in BackedRepos, g \in BackedRefs : <<q, g>> \notin {r} \X {f} => refs'[q][g] = refs[q][g]
  BY <1>1, <1>2 DEF RefMap
<1>5. {r} \X {f} \in SUBSET (BackedRepos \X BackedRefs)
  OBVIOUS
<1>6. act' = [w \in Workers |-> IF act[w].at \in {"listing", "bundling"}
                                THEN [act[w] EXCEPT !.moved = @ \cup ({r} \X {f})] ELSE act[w]]
  BY DEF PushLands, Moving
<1>7. UNCHANGED <<repoRows, blobRows, backupLock, file, listed, begun, answered, restored, drilled>>
  BY DEF PushLands
<1>8. PICK M : M = {r} \X {f}
  OBVIOUS
<1> QED BY <1>2, <1>3, <1>4, <1>5, <1>6, <1>7, <1>8, LiveOK

LEMMA PurgedOK ==
  ASSUME BackInv, NEW r \in BackedRepos, RepositoryPurged(r)
  PROVE  BackInv'
<1>1. refs' = [refs EXCEPT ![r] = NoRefs] /\ NoRefs \in [BackedRefs -> Nat]
  BY DEF RepositoryPurged, NoRefs
<1>2. refs \in RefMap /\ pushes \in Nat
  BY DEF BackInv, BackShape
<1>3. refs' \in RefMap
  BY <1>1, <1>2 DEF RefMap
<1>4. \A q \in BackedRepos, g \in BackedRefs : <<q, g>> \notin {r} \X BackedRefs => refs'[q][g] = refs[q][g]
  BY <1>1, <1>2 DEF RefMap
<1>5. {r} \X BackedRefs \in SUBSET (BackedRepos \X BackedRefs)
  OBVIOUS
<1>6. act' = [w \in Workers |-> IF act[w].at \in {"listing", "bundling"}
                                THEN [act[w] EXCEPT !.moved = @ \cup ({r} \X BackedRefs)] ELSE act[w]]
  BY DEF RepositoryPurged, Moving
<1>7. repoRows' \subseteq repoRows
      /\ UNCHANGED <<pushes, blobRows, backupLock, file, listed, begun, answered, restored, drilled>>
  BY DEF RepositoryPurged
<1>8. PICK M : M = {r} \X BackedRefs
  OBVIOUS
<1> QED BY <1>2, <1>3, <1>4, <1>5, <1>6, <1>7, <1>8, LiveOK

\* Large objects come and go, an operator removes a lock that was left, nothing happens.
LEMMA BesideBackupsOK ==
  ASSUME BackInv, blobRows' \subseteq Blobs, \A w \in Workers : backupLock = w => backupLock' = w,
         UNCHANGED <<repoRows, refs, pushes, act, file, listed, begun, answered, restored, drilled>>
  PROVE  BackInv'
<1>1. BackShape'
  BY DEF BackInv, BackShape
<1>2. WorkersOK'
  BY DEF BackInv, WorkersOK, WorkIsTrue, InTheMaking, ArchiveIsTrue, WorkApart
<1>3. SameNames'
  BY DEF BackInv, SameNames, Named, NamesOf
<1>4. FilesOK' /\ TargetsOK' /\ NewestIsThere'
  BY DEF BackInv, FilesOK, ArchiveIsTrue, TargetsOK, StillAsItWas, NewestIsThere, Newer
<1> QED BY <1>1, <1>2, <1>3, <1>4 DEF BackInv

\* The archive is written: every reference that stood still is in it.
LEMMA PackOK ==
  ASSUME BackInv, NEW w \in Workers, packPortableArchive(w)
  PROVE  BackInv'
<1>1. PICK m : m = act[w]
  OBVIOUS
<1>2. m \in Making /\ InTheMaking(m) /\ m.at = "listing" /\ m.left = {}
  BY <1>1, MakerIs DEF packPortableArchive
<1>3. PICK a : a = [exists |-> TRUE, rows |-> m.rows, refs |-> m.refs, bundle |-> m.bundle,
                    blobRows |-> m.blobs, lfs |-> "absent", tip |-> m.tip, moved |-> m.moved]
  OBVIOUS
<1>4. PICK x : x = [at |-> "packed", id |-> m.id]
  OBVIOUS
<1>5. /\ file' = [file EXCEPT ![m.id] = a] /\ act' = [act EXCEPT ![w] = x]
      /\ UNCHANGED <<repoRows, refs, pushes, blobRows, backupLock, listed, begun, answered, restored, drilled>>
  BY <1>1, <1>3, <1>4 DEF packPortableArchive, liveVars
<1>6. a \in Archive /\ a.exists /\ a.blobRows = m.blobs /\ a.rows = m.rows /\ a.bundle = m.bundle
      /\ a.tip = m.tip /\ a.moved = m.moved /\ a.lfs = "absent"
  BY <1>2, <1>3 DEF Archive, Plain, Making
<1>7. x \in Work /\ x.at = "packed" /\ x.id = m.id /\ m.id \in 1 .. MaxArchives
  BY <1>2, <1>4 DEF Work, Making
<1>8. ArchiveIsTrue(a)
  <2> SUFFICES ASSUME NEW r \in m.rows, NEW f \in BackedRefs, <<r, f>> \notin m.moved
               PROVE  m.bundle[r][f] = m.tip[r][f]
    BY <1>6 DEF ArchiveIsTrue
  <2>1. m.refs[r][f] = m.tip[r][f] /\ (m.bundle[r] # NoRefs => m.bundle[r][f] = m.tip[r][f])
    BY <1>2 DEF InTheMaking
  <2>2. m.bundle[r] = NoRefs => m.refs[r] = NoRefs
    BY <1>2 DEF InTheMaking
  <2> QED BY <2>1, <2>2
<1>9. WorkIsTrue(act[w]) /\ m.id \notin answered /\ m.id <= begun /\ ~ file[m.id].exists /\ backupLock = w
  BY <1>1, <1>2 DEF BackInv, WorkersOK, WorkIsTrue, UnderLock
<1>10. act \in [Workers -> Work] /\ file \in [1 .. MaxArchives -> Archive \cup {NoArchiveFile}]
  BY DEF BackInv, BackShape
<1>11. /\ file' \in [1 .. MaxArchives -> Archive \cup {NoArchiveFile}] /\ file'[m.id] = a
       /\ \A k \in 1 .. MaxArchives : k # m.id => file'[k] = file[k]
       /\ act' \in [Workers -> Work] /\ act'[w] = x /\ \A v \in Workers \ {w} : act'[v] = act[v]
  BY <1>5, <1>6, <1>7, <1>10
<1>12. \A v \in Workers \ {w} : WorkApart(act[v], act[w]) /\ WorkApart(act[w], act[v])
  BY DEF BackInv, WorkersOK
<1>121. ASSUME NEW v \in Workers \ {w}, act[v].at # "idle"
        PROVE  act[v].id # m.id /\ act[v].id \in 1 .. MaxArchives
  <2>1. act[v] \in Work
    BY <1>10
  <2>2. act[v].id \in 1 .. MaxArchives
    BY <1>121, <2>1 DEF Work, Making, NotWorking
  <2> QED BY <1>1, <1>2, <1>12, <1>121, <2>2 DEF WorkApart
<1>13. BackShape'
  BY <1>5, <1>11 DEF BackInv, BackShape
<1>14. WorkersOK'
  <2>1. WorkIsTrue(x)' /\ backupLock' = w
    BY <1>5, <1>7, <1>9 DEF WorkIsTrue
  <2>2. \A v \in Workers \ {w} : \A y : y = act[v] => WorkIsTrue(y)'
    <3> SUFFICES ASSUME NEW v \in Workers \ {w}, NEW y, y = act[v] PROVE WorkIsTrue(y)'
      OBVIOUS
    <3>1. WorkIsTrue(y) /\ (y.at # "idle" => file'[y.id] = file[y.id])
      BY <1>11, <1>121 DEF BackInv, WorkersOK
    <3>2. y.at \in {"listing", "bundling"} => ~ file'[y.id].exists /\ y.id \notin answered'
      BY <1>5, <3>1 DEF WorkIsTrue
    <3>3. y.at = "checking" /\ file'[y.id].exists => file'[y.id].lfs # "absent"
      BY <3>1 DEF WorkIsTrue
    <3>4. y.at = "building" => restored'[y.to] = NothingThere
      BY <1>5, <3>1 DEF WorkIsTrue
    <3>5. y \in Work /\ begun \in Nat
      BY <1>10, BackupsAssumption DEF BackInv, BackShape
    <3> QED BY <1>5, <3>1, <3>2, <3>3, <3>4, <3>5, StillTrue
  <2>3. \A v \in Workers \ {w} : WorkApart(act[v], x) /\ WorkApart(x, act[v])
    BY <1>1, <1>2, <1>7, <1>12 DEF WorkApart
  <2>4. WorkersOK /\ \A v \in Workers \ {w} : act[v].at \in UnderLock => backupLock' = backupLock
    BY <1>5 DEF BackInv
  <2> QED BY <1>5, <1>10, <2>1, <2>2, <2>3, <2>4, OneWorker
<1>15. FilesOK'
  <2>1. \A k \in 1 .. MaxArchives : file'[k].exists => k <= begun /\ ArchiveIsTrue(file'[k])
    BY <1>8, <1>9, <1>11 DEF BackInv, FilesOK
  <2>4. \A k \in 1 .. MaxArchives : file'[k].exists /\ file'[k].lfs = "outside" => k \in Bucketed
    BY <1>6, <1>7, <1>11 DEF BackInv, FilesOK
  <2>2. \A k \in 1 .. MaxArchives : (file[k].exists => k <= begun /\ ArchiveIsTrue(file[k]))'
    BY <1>5, <2>1 DEF ArchiveIsTrue
  <2>3. \A k \in answered : k # m.id /\ k \in 1 .. MaxArchives
    BY <1>9, BackupsAssumption DEF BackInv, BackShape
  <2> QED BY <1>5, <1>11, <2>2, <2>3, <2>4 DEF BackInv, FilesOK
<1>16. SameNames'
  <2>1. PICK base \in [1 .. MaxArchives -> SUBSET Blobs] : Named(base)
    BY DEF BackInv, SameNames
  <2>2. PICK new : new = [base EXCEPT ![m.id] = m.blobs]
    OBVIOUS
  <2>3. m.blobs \in SUBSET Blobs
    BY <1>2 DEF Making
  <2>4. new \in [1 .. MaxArchives -> SUBSET Blobs] /\ new[m.id] = m.blobs
        /\ \A k \in 1 .. MaxArchives : k # m.id => new[k] = base[k]
    BY <1>7, <2>2, <2>3
  <2>5. \A k \in 1 .. MaxArchives : file'[k].exists => file'[k].blobRows = new[k]
    BY <1>6, <1>11, <2>1, <2>4 DEF Named
  <2>6. \A v \in Workers : NamesOf(new, act[v])'
    <3>1. NamesOf(new, act[w])'
      BY <1>7, <1>11 DEF NamesOf
    <3>2. ASSUME NEW v \in Workers \ {w} PROVE NamesOf(new, act[v])'
      <4>1. NamesOf(base, act[v])
        BY <2>1 DEF Named
      <4>2. act'[v] = act[v]
        BY <1>11
      <4>3. act[v].at # "idle" => new[act[v].id] = base[act[v].id]
        BY <1>121, <2>4
      <4> QED BY <1>5, <4>1, <4>2, <4>3 DEF NamesOf
    <3> QED BY <3>1, <3>2
  <2> QED BY <2>4, <2>5, <2>6 DEF SameNames, Named
<1>17. TargetsOK'
  BY <1>5 DEF BackInv, TargetsOK, StillAsItWas
<1>18. NewestIsThere'
  <2>1. \A k \in listed : k \in 1 .. MaxArchives
    BY BackupsAssumption DEF BackInv, BackShape
  <2> QED BY <1>5, <1>6, <1>11, <2>1 DEF BackInv, NewestIsThere, Newer
<1> QED BY <1>13, <1>14, <1>15, <1>16, <1>17, <1>18 DEF BackInv

\* What the other processes keep of an archive while one works on it.
LEMMA RunOf ==
  ASSUME BackInv, NEW w \in Workers
  PROVE  /\ act[w] \in Work /\ WorkIsTrue(act[w])
         /\ act[w].at # "idle" => act[w].id \in 1 .. MaxArchives /\ act[w].id <= begun
         /\ act[w].at \in {"repacking", "building"} => act[w].copy \in Archive
         /\ act[w].at \in {"verified", "building", "objects", "restored"} => act[w].to \in Targets
         /\ act[w].at \in {"verified", "building"} => act[w].promised \in BOOLEAN
         /\ \A v \in Workers \ {w} : WorkApart(act[v], act[w]) /\ WorkApart(act[w], act[v])
<1>1. act[w] \in Work /\ WorkIsTrue(act[w])
  BY DEF BackInv, BackShape, WorkersOK
<1>2. act[w].at # "idle" => act[w].id \in 1 .. MaxArchives
  BY <1>1 DEF Work, Making, NotWorking
<1>3. act[w].at # "idle" => act[w].id <= begun
  BY <1>1 DEF WorkIsTrue
<1>4. act[w].at \in {"repacking", "building"} => act[w].copy \in Archive
  <2> HIDE DEF Archive
  <2> QED BY <1>1 DEF Work, Making, NotWorking
<1>5. act[w].at \in {"verified", "building", "objects", "restored"} => act[w].to \in Targets
  <2> HIDE DEF Archive
  <2> QED BY <1>1 DEF Work, Making, NotWorking
<1>6. act[w].at \in {"verified", "building"} => act[w].promised \in BOOLEAN
  <2> HIDE DEF Archive
  <2> QED BY <1>1 DEF Work, Making, NotWorking
<1>7. \A v \in Workers \ {w} : WorkApart(act[v], act[w]) /\ WorkApart(act[w], act[v])
  BY DEF BackInv, WorkersOK
<1> QED BY <1>1, <1>2, <1>3, <1>4, <1>5, <1>6, <1>7

\* A process goes on with the same archive and is neither making one nor restoring objects.
LEMMA ApartStays ==
  ASSUME BackInv, NEW w \in Workers, act[w].at # "idle", NEW x, x.id = act[w].id,
         x.at \notin {"listing", "bundling", "objects"}
  PROVE  \A v \in Workers \ {w} : WorkApart(act[v], x) /\ WorkApart(x, act[v])
<1> SUFFICES ASSUME NEW v \in Workers \ {w} PROVE WorkApart(act[v], x) /\ WorkApart(x, act[v])
  OBVIOUS
<1>1. WorkApart(act[v], act[w])
  BY RunOf
<1> QED BY <1>1 DEF WorkApart

LEMMA IndexOK ==
  ASSUME BackInv, NEW w \in Workers, WriteIndex(w)
  PROVE  BackInv'
<1>1. PICK i : i = act[w].id
  OBVIOUS
<1>2. act[w].at = "packed" /\ backupLock' = "free" /\ backupLock = w
      /\ UNCHANGED <<repoRows, refs, pushes, blobRows, file, begun, answered, restored, drilled>>
  BY DEF WriteIndex, liveVars, BackInv, WorkersOK, UnderLock
<1>3. i \in 1 .. MaxArchives /\ i <= begun /\ act \in [Workers -> Work]
  BY <1>1, <1>2, RunOf DEF BackInv, BackShape
<1>4. CASE act' = [act EXCEPT ![w] = NotWorking] /\ UNCHANGED listed
  BY <1>2, <1>4, StopsOK
<1>5. CASE BaseVerifies(i) /\ listed' = listed \cup {i} /\ act' = [act EXCEPT ![w].at = "augmenting"]
  <2>1. PICK x : x = [act[w] EXCEPT !.at = "augmenting"]
    OBVIOUS
  <2>2. act' = [act EXCEPT ![w] = x]
    BY <1>5, <2>1
  <2>3. act[w] \in [at : {"packed", "augmenting", "checking"}, id : 1 .. MaxArchives]
    <3>1. act[w] \in Work
      BY RunOf
    <3> HIDE DEF Archive
    <3> QED BY <1>2, <3>1 DEF Work, Making, NotWorking
  <2>4. x \in [at : {"packed", "augmenting", "checking"}, id : 1 .. MaxArchives]
        /\ x.at = "augmenting" /\ x.id = i
    BY <1>1, <2>1, <2>3
  <2>5. x \in Work
    BY <2>4 DEF Work
  <2>6. listed' \subseteq 1 .. begun' /\ answered' \subseteq 1 .. begun' /\ begun \in Nat
        /\ begun' \in {begun, begun + 1} /\ begun' \in 0 .. MaxArchives
    BY <1>2, <1>3, <1>5, BackupsAssumption DEF BackInv, BackShape
  <2>7. NewestIsThere'
    <3>1. file[i].exists
      BY <1>5 DEF BaseVerifies
    <3>2. \A k \in listed : Newer(k) # {} => Newer(k)' # {}
      BY <1>5 DEF Newer
    <3>3. \A k \in listed' : k # i => k \in listed
      BY <1>5
    <3> SUFFICES ASSUME NEW k \in listed', {j \in listed' : j > k} = {} PROVE file'[k].exists
      BY DEF NewestIsThere, Newer
    <3>4. CASE k = i
      BY <1>2, <3>1, <3>4
    <3>5. CASE k # i
      <4>1. k \in listed /\ Newer(k) = {}
        BY <1>5, <3>5 DEF Newer
      <4> QED BY <1>2, <4>1 DEF BackInv, NewestIsThere
    <3> QED BY <3>4, <3>5
  <2>8. WorkIsTrue(x)' /\ x.at \notin UnderLock
    BY <1>2, <1>3, <2>4 DEF WorkIsTrue, UnderLock
  <2>9. \A v \in Workers \ {w} : act[v].at \notin UnderLock
    BY <1>2 DEF BackInv, WorkersOK
  <2>10. \A v \in Workers \ {w} : WorkApart(act[v], x) /\ WorkApart(x, act[v])
    BY <1>1, <1>2, <2>4, ApartStays
  <2>11. \A base \in [1 .. MaxArchives -> SUBSET Blobs] : NamesOf(base, x)
    BY <2>4 DEF NamesOf
  <2>12. drilled' \in [Targets -> {"none", "passed", "failed"}]
         /\ \A t \in Targets : drilled'[t] = "passed" =>
              restored[t].state = "restored" /\ restored[t].blobRows \subseteq restored[t].blobs
    BY <1>2 DEF BackInv, BackShape, TargetsOK
  <2>13. \A v \in Workers \ {w} : act[v].at \in {"listing", "bundling"} => act[v].id \notin answered'
    BY <1>2 DEF BackInv, WorkersOK, WorkIsTrue
  <2>14. answered \subseteq answered' /\ (\A k \in answered' \ answered : file[k].exists => file[k].lfs # "absent")
         /\ UNCHANGED <<repoRows, refs, pushes, blobRows, file, restored>>
    BY <1>2
  <2> QED BY <2>2, <2>5, <2>6, <2>7, <2>8, <2>9, <2>10, <2>11, <2>12, <2>13, <2>14, WorkerActs
<1> QED BY <1>1, <1>2, <1>4, <1>5 DEF WriteIndex

LEMMA VerifyLiveOK ==
  ASSUME BackInv, NEW w \in Workers, verifyLiveLfsObjects(w)
  PROVE  BackInv'
<1>1. PICK i : i = act[w].id
  OBVIOUS
<1>2. act[w].at = "augmenting"
      /\ UNCHANGED <<repoRows, refs, pushes, blobRows, backupLock, file, listed, begun, answered, restored, drilled>>
  BY DEF verifyLiveLfsObjects, liveVars
<1>3. i \in 1 .. MaxArchives /\ i <= begun /\ act \in [Workers -> Work]
  BY <1>1, <1>2, RunOf DEF BackInv, BackShape
<1>4. CASE act' = [act EXCEPT ![w] = NotWorking]
  BY <1>2, <1>4, StopsOK
<1>5. CASE file[i].exists /\ act' = [act EXCEPT ![w] = [at |-> "repacking", id |-> i, copy |-> file[i]]]
  <2>1. PICK x : x = [at |-> "repacking", id |-> i, copy |-> file[i]]
    OBVIOUS
  <2>2. act' = [act EXCEPT ![w] = x] /\ x.at = "repacking" /\ x.id = i /\ x.copy = file[i]
    BY <1>5, <2>1
  <2>3. file[i] \in Archive
    BY <1>3, <1>5 DEF BackInv, BackShape, NoArchiveFile
  <2>4. x \in Work
    <3> HIDE DEF Archive
    <3> QED BY <1>3, <2>1, <2>3 DEF Work
  <2>5. ArchiveIsTrue(x.copy)
    BY <1>3, <1>5, <2>2 DEF BackInv, FilesOK
  <2>6. WorkIsTrue(x)'
    BY <1>2, <1>3, <2>2, <2>5 DEF WorkIsTrue, ArchiveIsTrue
  <2>7. x.at \notin UnderLock /\ begun' \in 0 .. MaxArchives /\ begun' \in {begun, begun + 1}
    BY <1>2, <2>2 DEF UnderLock, BackInv, BackShape
  <2>8. \A v \in Workers \ {w} : WorkApart(act[v], x) /\ WorkApart(x, act[v])
    BY <1>1, <1>2, <2>2, ApartStays
  <2>9. \A base \in [1 .. MaxArchives -> SUBSET Blobs] : Named(base) => NamesOf(base, x)
    BY <1>3, <1>5, <2>2 DEF Named, NamesOf
  <2> QED BY <1>2, <2>2, <2>4, <2>6, <2>7, <2>8, <2>9, WorkerMoves
<1> QED BY <1>1, <1>4, <1>5 DEF verifyLiveLfsObjects

LEMMA AnswerOK ==
  ASSUME BackInv, NEW w \in Workers, AnswerBackup(w)
  PROVE  BackInv'
<1>1. PICK i : i = act[w].id
  OBVIOUS
<1>2. /\ act[w].at = "checking" /\ act' = [act EXCEPT ![w] = NotWorking]
      /\ UNCHANGED <<repoRows, refs, pushes, blobRows, backupLock, file, listed, begun, restored, drilled>>
  BY DEF AnswerBackup, liveVars
<1>3. i \in 1 .. MaxArchives /\ i <= begun
  BY <1>1, <1>2, RunOf
<1>4. CASE answered' = answered
  BY <1>2, <1>4, StopsOK
<1>5. CASE answered' = answered \cup {i}
  <2>1. PICK x : x = NotWorking
    OBVIOUS
  <2>2. x \in Work /\ x.at = "idle"
    BY <2>1 DEF Work, NotWorking
  <2>3. listed' \subseteq 1 .. begun' /\ answered' \subseteq 1 .. begun'
        /\ begun' \in {begun, begun + 1} /\ begun' \in 0 .. MaxArchives
    BY <1>2, <1>3, <1>5, BackupsAssumption DEF BackInv, BackShape
  <2>4. NewestIsThere'
    BY <1>2 DEF BackInv, NewestIsThere, Newer
  <2>5. answered \subseteq answered' /\ \A k \in answered' \ answered : file[k].exists => file[k].lfs # "absent"
    <3>1. file[i].exists => file[i].lfs # "absent"
      BY <1>1, <1>2, RunOf DEF WorkIsTrue
    <3> QED BY <1>5, <3>1
  <2>6. \A v \in Workers \ {w} : act[v].at \in {"listing", "bundling"} => act[v].id \notin answered'
    <3> SUFFICES ASSUME NEW v \in Workers \ {w}, act[v].at \in {"listing", "bundling"}
                 PROVE  act[v].id \notin answered'
      OBVIOUS
    <3>1. act[v].id # i
      BY <1>1, <1>2, RunOf DEF WorkApart
    <3>2. act[v].id \notin answered
      BY DEF BackInv, WorkersOK, WorkIsTrue
    <3> QED BY <1>5, <3>1, <3>2
  <2>7. drilled' \in [Targets -> {"none", "passed", "failed"}]
        /\ \A t \in Targets : drilled'[t] = "passed" =>
             restored[t].state = "restored" /\ restored[t].blobRows \subseteq restored[t].blobs
    BY <1>2 DEF BackInv, BackShape, TargetsOK
  <2>8. WorkIsTrue(x)' /\ x.at \notin UnderLock
    BY <2>2 DEF WorkIsTrue, UnderLock
  <2>9. \A v \in Workers \ {w} : WorkApart(act[v], x) /\ WorkApart(x, act[v])
    BY <2>2 DEF WorkApart
  <2>10. \A base \in [1 .. MaxArchives -> SUBSET Blobs] : NamesOf(base, x)
    BY <2>2 DEF NamesOf
  <2>11. act' = [act EXCEPT ![w] = x] /\ backupLock' = backupLock
         /\ UNCHANGED <<repoRows, refs, pushes, blobRows, file, restored>>
    BY <1>2, <2>1
  <2> QED BY <2>2, <2>3, <2>4, <2>5, <2>6, <2>7, <2>8, <2>9, <2>10, <2>11, WorkerActs
<1> QED BY <1>1, <1>4, <1>5 DEF AnswerBackup

\* The second pass replaces the archive by one that holds the large objects too.
LEMMA RepackOK ==
  ASSUME BackInv, NEW w \in Workers, Repack(w)
  PROVE  BackInv'
<1>1. PICK c : c = act[w].copy
  OBVIOUS
<1>2. PICK i : i = act[w].id
  OBVIOUS
<1>3. act[w].at = "repacking"
      /\ UNCHANGED <<repoRows, refs, pushes, blobRows, backupLock, listed, begun, answered, restored, drilled>>
  BY DEF Repack, liveVars
<1>4. i \in 1 .. MaxArchives /\ i <= begun /\ c \in Archive /\ ArchiveIsTrue(c)
  BY <1>1, <1>2, <1>3, RunOf DEF WorkIsTrue
<1>5. CASE act' = [act EXCEPT ![w] = NotWorking] /\ UNCHANGED file
  BY <1>3, <1>5, StopsOK
<1>6. PICK a : a = [exists |-> TRUE, rows |-> c.rows, refs |-> c.refs, bundle |-> c.bundle,
                    blobRows |-> c.blobRows, tip |-> c.tip, moved |-> c.moved,
                    lfs |-> IF i \in Bucketed THEN "outside" ELSE "inside",
                    inside |-> IF i \in Bucketed THEN {} ELSE c.blobRows]
  OBVIOUS
<1>7. PICK x : x = [at |-> "checking", id |-> i]
  OBVIOUS
<1>8. CASE file' = [file EXCEPT ![i] = a] /\ act' = [act EXCEPT ![w] = x]
  <2>1. a \in Archive /\ a.exists /\ a.blobRows = c.blobRows /\ a.lfs # "absent"
        /\ (a.lfs = "inside" => a.inside = a.blobRows) /\ (a.lfs = "outside" => i \in Bucketed)
        /\ a.rows = c.rows /\ a.bundle = c.bundle /\ a.tip = c.tip /\ a.moved = c.moved
    BY <1>4, <1>6 DEF Archive, Plain, Full
  <2>2. ArchiveIsTrue(a)
    BY <1>4, <2>1 DEF ArchiveIsTrue
  <2>3. x \in Work /\ x.at = "checking" /\ x.id = i
    BY <1>4, <1>7 DEF Work
  <2>4. act \in [Workers -> Work] /\ file \in [1 .. MaxArchives -> Archive \cup {NoArchiveFile}]
    BY DEF BackInv, BackShape
  <2>5. /\ file' \in [1 .. MaxArchives -> Archive \cup {NoArchiveFile}] /\ file'[i] = a
        /\ \A k \in 1 .. MaxArchives : k # i => file'[k] = file[k]
        /\ act' \in [Workers -> Work] /\ act'[w] = x /\ \A v \in Workers \ {w} : act'[v] = act[v]
    BY <1>4, <1>8, <2>1, <2>3, <2>4
  <2>6. BackShape'
    BY <1>3, <2>5 DEF BackInv, BackShape
  <2>7. WorkersOK'
    <3>1. WorkIsTrue(x)' /\ x.at \notin UnderLock
      BY <1>3, <1>4, <2>1, <2>3, <2>5 DEF WorkIsTrue, UnderLock
    <3>2. \A v \in Workers \ {w} : \A y : y = act[v] => WorkIsTrue(y)'
      <4> SUFFICES ASSUME NEW v \in Workers \ {w}, NEW y, y = act[v] PROVE WorkIsTrue(y)'
        OBVIOUS
      <4>1. y \in Work /\ WorkIsTrue(y) /\ (y.at # "idle" => y.id \in 1 .. MaxArchives)
            /\ WorkApart(y, act[w])
        BY RunOf
      <4>2. y.at \in {"listing", "bundling"} => ~ file'[y.id].exists /\ y.id \notin answered'
        BY <1>2, <1>3, <2>5, <4>1 DEF WorkIsTrue, WorkApart
      <4>3. y.at = "checking" /\ file'[y.id].exists => file'[y.id].lfs # "absent"
        BY <2>1, <2>5, <4>1 DEF WorkIsTrue
      <4>4. y.at = "building" => restored'[y.to] = NothingThere
        BY <1>3, <4>1 DEF WorkIsTrue
      <4>5. begun \in Nat
        BY BackupsAssumption DEF BackInv, BackShape
      <4> QED BY <1>3, <4>1, <4>2, <4>3, <4>4, <4>5, StillTrue
    <3>3. \A v \in Workers \ {w} : WorkApart(act[v], x) /\ WorkApart(x, act[v])
      BY <1>2, <1>3, <2>3, ApartStays
    <3> QED BY <1>3, <1>8, <2>4, <3>1, <3>2, <3>3, OneWorker DEF BackInv
  <2>8. FilesOK'
    <3>1. \A k \in 1 .. MaxArchives : file'[k].exists => k <= begun /\ ArchiveIsTrue(file'[k])
      BY <1>4, <2>2, <2>5 DEF BackInv, FilesOK
    <3>5. \A k \in 1 .. MaxArchives : file'[k].exists /\ file'[k].lfs = "outside" => k \in Bucketed
      BY <2>1, <2>5 DEF BackInv, FilesOK
    <3>2. \A k \in 1 .. MaxArchives : (file[k].exists => k <= begun /\ ArchiveIsTrue(file[k]))'
      BY <1>3, <3>1 DEF ArchiveIsTrue
    <3>3. \A k \in answered : k \in 1 .. MaxArchives
      BY BackupsAssumption DEF BackInv, BackShape
    <3>4. \A k \in answered : file'[k].exists => file'[k].lfs # "absent"
      BY <2>1, <2>5, <3>3 DEF BackInv, FilesOK
    <3> QED BY <1>3, <3>2, <3>4, <3>5 DEF FilesOK
  <2>9. SameNames'
    <3>1. PICK base \in [1 .. MaxArchives -> SUBSET Blobs] : Named(base)
      BY DEF BackInv, SameNames
    <3>2. a.blobRows = base[i]
      BY <1>1, <1>2, <1>3, <2>1, <3>1 DEF Named, NamesOf
    <3>3. \A k \in 1 .. MaxArchives : file'[k].exists => file'[k].blobRows = base[k]
      BY <2>5, <3>1, <3>2 DEF Named
    <3>4. \A v \in Workers : NamesOf(base, act[v])'
      BY <1>3, <2>3, <2>5, <3>1 DEF Named, NamesOf
    <3> QED BY <3>3, <3>4 DEF SameNames, Named
  <2>10. TargetsOK'
    BY <1>3 DEF BackInv, TargetsOK, StillAsItWas
  <2>11. NewestIsThere'
    <3>1. \A k \in listed : k \in 1 .. MaxArchives
      BY BackupsAssumption DEF BackInv, BackShape
    <3> QED BY <1>3, <2>1, <2>5, <3>1 DEF BackInv, NewestIsThere, Newer
  <2> QED BY <2>6, <2>7, <2>8, <2>9, <2>10, <2>11 DEF BackInv
<1> QED BY <1>1, <1>2, <1>5, <1>6, <1>7, <1>8 DEF Repack

LEMMA BeginRestoreOK ==
  ASSUME BackInv, NEW w \in Workers, NEW k \in 1 .. MaxArchives, NEW t \in Targets, BeginRestore(w, k, t)
  PROVE  BackInv'
<1>1. PICK x : x = [at |-> "verified", id |-> k, to |-> t, promised |-> k \in answered]
  OBVIOUS
<1>2. /\ act[w].at = "idle" /\ file[k].exists /\ act' = [act EXCEPT ![w] = x]
      /\ UNCHANGED <<repoRows, refs, pushes, blobRows, backupLock, file, listed, begun, answered, restored, drilled>>
  BY <1>1 DEF BeginRestore, liveVars
<1>3. x.at = "verified" /\ x.id = k /\ x.to = t /\ (x.promised => k \in answered)
  BY <1>1
<1>4. x \in [at : {"verified"}, id : 1 .. MaxArchives, to : Targets, promised : BOOLEAN]
  BY <1>1
<1>5. x \in Work
  <2> HIDE DEF Archive, Making
  <2> QED BY <1>4 DEF Work
<1>6. k <= begun
  BY <1>2 DEF BackInv, FilesOK
<1>7. WorkIsTrue(x)' /\ x.at \notin UnderLock
  BY <1>2, <1>3, <1>6 DEF WorkIsTrue, UnderLock
<1>8. \A v \in Workers \ {w} : WorkApart(act[v], x) /\ WorkApart(x, act[v])
  <2> SUFFICES ASSUME NEW v \in Workers \ {w} PROVE WorkApart(act[v], x) /\ WorkApart(x, act[v])
    OBVIOUS
  <2>1. act[v].at \in {"listing", "bundling"} => act[v].id # k
    BY <1>2 DEF BackInv, WorkersOK, WorkIsTrue
  <2> QED BY <1>3, <2>1 DEF WorkApart
<1>9. \A base \in [1 .. MaxArchives -> SUBSET Blobs] : NamesOf(base, x)
  BY <1>3 DEF NamesOf
<1>10. begun' \in 0 .. MaxArchives /\ begun' \in {begun, begun + 1} /\ backupLock' = backupLock
  BY <1>2 DEF BackInv, BackShape
<1> QED BY <1>2, <1>5, <1>7, <1>8, <1>9, <1>10, WorkerMoves

LEMMA BuildOK ==
  ASSUME BackInv, NEW w \in Workers, BuildRestore(w)
  PROVE  BackInv'
<1>1. PICK i : i = act[w].id
  OBVIOUS
<1>2. PICK t : t = act[w].to
  OBVIOUS
<1>3. PICK b : b = act[w].promised
  OBVIOUS
<1>4. act[w].at = "verified"
      /\ UNCHANGED <<repoRows, refs, pushes, blobRows, file, listed, begun, answered, restored, drilled>>
  BY DEF BuildRestore, liveVars
<1>5. i \in 1 .. MaxArchives /\ i <= begun /\ t \in Targets /\ b \in BOOLEAN /\ (b => i \in answered)
  BY <1>1, <1>2, <1>3, <1>4, RunOf DEF WorkIsTrue
<1>6. CASE act' = [act EXCEPT ![w] = NotWorking] /\ UNCHANGED backupLock
  BY <1>4, <1>6, StopsOK
<1>7. PICK x : x = [at |-> "building", id |-> i, to |-> t, promised |-> b, copy |-> file[i]]
  OBVIOUS
<1>8. CASE /\ backupLock = "free" /\ restored[t] = NothingThere /\ file[i].exists /\ backupLock' = w
           /\ act' = [act EXCEPT ![w] = x]
  <2>1. x.at = "building" /\ x.id = i /\ x.to = t /\ x.promised = b /\ x.copy = file[i]
    BY <1>7
  <2>2. file[i] \in Archive
    BY <1>5, <1>8 DEF BackInv, BackShape, NoArchiveFile
  <2>3. x \in Work
    <3> HIDE DEF Archive, Making
    <3>1. x \in [at : {"building"}, id : 1 .. MaxArchives, to : Targets, promised : BOOLEAN, copy : Archive]
      BY <1>5, <1>7, <2>2
    <3> QED BY <3>1 DEF Work
  <2>4. ArchiveIsTrue(x.copy)
    BY <1>5, <1>8, <2>1 DEF BackInv, FilesOK
  <2>5. WorkIsTrue(x)'
    BY <1>4, <1>5, <1>8, <2>1, <2>4 DEF WorkIsTrue, ArchiveIsTrue
  <2>6. \A v \in Workers \ {w} : act[v].at \notin UnderLock
    BY <1>8, FreeForAll
  <2>7. \A v \in Workers \ {w} : WorkApart(act[v], x) /\ WorkApart(x, act[v])
    BY <1>1, <1>4, <2>1, ApartStays
  <2>8. \A base \in [1 .. MaxArchives -> SUBSET Blobs] : Named(base) => NamesOf(base, x)
    BY <1>5, <1>8, <2>1 DEF Named, NamesOf
  <2>9. begun' \in 0 .. MaxArchives /\ begun' \in {begun, begun + 1}
    BY <1>4 DEF BackInv, BackShape
  <2> QED BY <1>4, <1>8, <2>3, <2>5, <2>6, <2>7, <2>8, <2>9, WorkerMoves
<1> QED BY <1>1, <1>2, <1>3, <1>6, <1>7, <1>8 DEF BuildRestore, acquireBackupLock

\* A worker goes on to x and a target becomes rec; the archives stay.
TargetSet(w, x, t, rec) ==
  /\ act' = [act EXCEPT ![w] = x] /\ restored' = [restored EXCEPT ![t] = rec]
  /\ UNCHANGED <<repoRows, refs, pushes, blobRows, file, listed, begun, answered, drilled>>

\* What was restored somewhere changes: who has to do with that target, and what holds of it.
LEMMA TargetChanges ==
  ASSUME BackInv, NEW w \in Workers, NEW t \in Targets, NEW x \in Work, NEW rec \in Landed \cup {NothingThere},
         TargetSet(w, x, t, rec), WorkIsTrue(x)', x.at \notin UnderLock,
         \A v \in Workers \ {w} : act[v].at \in UnderLock => backupLock' = backupLock,
         \A v \in Workers \ {w} : WorkApart(act[v], x) /\ WorkApart(x, act[v]),
         \A v \in Workers \ {w} : act[v].at \in {"building", "objects", "restored"} => act[v].to # t,
         \A base : Named(base) /\ x.at = "objects" =>
           x.to = t /\ rec.blobRows = base[x.id],
         x.at \notin {"repacking", "building"},
         rec # NothingThere => StillAsItWas(rec),
         rec.state = "restored" /\ rec.promised => rec.blobs = rec.blobRows,
         drilled[t] # "passed"
  PROVE  BackInv'
<1> USE DEF TargetSet
<1>1. act \in [Workers -> Work] /\ restored \in [Targets -> Landed \cup {NothingThere}] /\ begun \in Nat
  BY BackupsAssumption DEF BackInv, BackShape
<1>2. /\ act' \in [Workers -> Work] /\ act'[w] = x /\ \A v \in Workers \ {w} : act'[v] = act[v]
      /\ restored' \in [Targets -> Landed \cup {NothingThere}] /\ restored'[t] = rec
      /\ \A u \in Targets : u # t => restored'[u] = restored[u]
  BY <1>1
<1>3. BackShape'
  BY <1>2 DEF BackInv, BackShape
<1>4. WorkersOK'
  <2>1. \A v \in Workers \ {w} : \A y : y = act[v] => WorkIsTrue(y)'
    <3> SUFFICES ASSUME NEW v \in Workers \ {w}, NEW y, y = act[v] PROVE WorkIsTrue(y)'
      OBVIOUS
    <3>1. y \in Work /\ WorkIsTrue(y)
      BY RunOf
    <3>2. y.at \in {"building", "objects", "restored"} => y.to \in Targets /\ y.to # t
      BY RunOf
    <3>3. y.at \in {"listing", "bundling"} => ~ file'[y.id].exists /\ y.id \notin answered'
      BY <3>1 DEF WorkIsTrue
    <3>4. y.at = "checking" /\ file'[y.id].exists => file'[y.id].lfs # "absent"
      BY <3>1 DEF WorkIsTrue
    <3>5. y.at = "building" => restored'[y.to] = NothingThere
      BY <1>2, <3>1, <3>2 DEF WorkIsTrue
    <3>6. y.at \in {"objects", "restored"} => restored'[y.to] = restored[y.to]
      BY <1>2, <3>2
    <3> QED BY <1>1, <3>1, <3>3, <3>4, <3>5, <3>6, StillTrue
  <2> QED BY <1>1, <2>1, OneWorker DEF BackInv
<1>5. FilesOK' /\ NewestIsThere'
  BY DEF BackInv, FilesOK, ArchiveIsTrue, NewestIsThere, Newer
<1>6. SameNames'
  <2>1. PICK base \in [1 .. MaxArchives -> SUBSET Blobs] : Named(base)
    BY DEF BackInv, SameNames
  <2>2. NamesOf(base, x)'
    BY <1>2, <2>1 DEF NamesOf
  <2>3. NamesOf(base, act[w])'
    BY <1>2, <2>2 DEF NamesOf
  <2>4. ASSUME NEW v \in Workers \ {w} PROVE NamesOf(base, act[v])'
    <3>1. NamesOf(base, act[v])
      BY <2>1 DEF Named
    <3>2. act[v].at = "objects" => act[v].to \in Targets /\ act[v].to # t
      BY RunOf
    <3> QED BY <1>2, <3>1, <3>2 DEF NamesOf
  <2> QED BY <2>1, <2>3, <2>4 DEF SameNames, Named
<1>7. TargetsOK'
  <2>1. \A u \in Targets : restored'[u] # NothingThere => StillAsItWas(restored'[u])
    BY <1>2 DEF BackInv, TargetsOK
  <2>2. \A u \in Targets : restored'[u].state = "restored" /\ restored'[u].promised
                             => restored'[u].blobs = restored'[u].blobRows
    BY <1>2 DEF BackInv, TargetsOK
  <2>3. \A u \in Targets : drilled[u] = "passed" =>
          restored'[u].state = "restored" /\ restored'[u].blobRows \subseteq restored'[u].blobs
    BY <1>2 DEF BackInv, TargetsOK
  <2>4. \A u \in Targets : (restored[u] # NothingThere => StillAsItWas(restored[u]))'
    BY <2>1 DEF StillAsItWas
  <2> QED BY <2>2, <2>3, <2>4 DEF TargetsOK
<1> QED BY <1>3, <1>4, <1>5, <1>6, <1>7 DEF BackInv

\* The target appears, with what the archive holds but the large objects.
LEMMA RenameOK ==
  ASSUME BackInv, NEW w \in Workers, RenameRestore(w)
  PROVE  BackInv'
<1>1. PICK c : c = act[w].copy
  OBVIOUS
<1>2. PICK i : i = act[w].id
  OBVIOUS
<1>3. PICK t : t = act[w].to
  OBVIOUS
<1>4. PICK b : b = act[w].promised
  OBVIOUS
<1>5. PICK x : x = [at |-> "objects", id |-> i, to |-> t]
  OBVIOUS
<1>6. PICK rec : rec = [state |-> "landed", rows |-> c.rows, repos |-> c.bundle, blobRows |-> c.blobRows,
                        blobs |-> {}, promised |-> b, tip |-> c.tip, moved |-> c.moved]
  OBVIOUS
<1>7. /\ act[w].at = "building" /\ restored' = [restored EXCEPT ![t] = rec] /\ act' = [act EXCEPT ![w] = x]
      /\ UNCHANGED <<repoRows, refs, pushes, blobRows, file, listed, begun, answered, drilled>>
  BY <1>1, <1>2, <1>3, <1>4, <1>5, <1>6 DEF RenameRestore, liveVars
<1>8. /\ i \in 1 .. MaxArchives /\ i <= begun /\ t \in Targets /\ b \in BOOLEAN /\ (b => i \in answered)
      /\ c \in Archive /\ ArchiveIsTrue(c) /\ restored[t] = NothingThere
  BY <1>1, <1>2, <1>3, <1>4, <1>7, RunOf DEF WorkIsTrue
<1>9. /\ c.rows \in SUBSET BackedRepos /\ c.bundle \in RefMap /\ c.blobRows \in SUBSET Blobs
      /\ c.tip \in RefMap /\ c.moved \in SUBSET (BackedRepos \X BackedRefs)
  BY <1>8 DEF Archive, Plain, Full
<1>10. rec \in Landed
  BY <1>6, <1>8, <1>9 DEF Landed
<1>11. /\ rec.state = "landed" /\ rec.rows = c.rows /\ rec.repos = c.bundle /\ rec.blobRows = c.blobRows
       /\ rec.tip = c.tip /\ rec.moved = c.moved /\ (rec.promised => i \in answered)
  BY <1>6, <1>8
<1>12. x \in Work /\ x.at = "objects" /\ x.id = i /\ x.to = t
  <2>1. x \in [at : {"objects", "restored"}, id : 1 .. MaxArchives, to : Targets]
    BY <1>5, <1>8
  <2> HIDE DEF Archive, Making
  <2> QED BY <1>5, <2>1 DEF Work
<1>13. restored'[t] = rec
  BY <1>7, <1>8 DEF BackInv, BackShape
<1>14. WorkIsTrue(x)' /\ x.at \notin UnderLock
  BY <1>7, <1>8, <1>11, <1>12, <1>13 DEF WorkIsTrue, UnderLock
<1>15. \A v \in Workers \ {w} : act[v].at \notin UnderLock
  BY <1>7 DEF BackInv, WorkersOK, UnderLock
<1>16. \A v \in Workers \ {w} : act[v].at \in {"building", "objects", "restored"} => act[v].to # t
  <2> SUFFICES ASSUME NEW v \in Workers \ {w}, act[v].at \in {"objects", "restored"}, act[v].to = t PROVE FALSE
    BY <1>15 DEF UnderLock
  <2>1. WorkIsTrue(act[v])
    BY RunOf
  <2> QED BY <1>8, <2>1 DEF WorkIsTrue, NothingThere
<1>17. \A v \in Workers \ {w} : WorkApart(act[v], x) /\ WorkApart(x, act[v])
  <2> SUFFICES ASSUME NEW v \in Workers \ {w} PROVE WorkApart(act[v], x) /\ WorkApart(x, act[v])
    OBVIOUS
  <2> QED BY <1>12, <1>15, <1>16 DEF WorkApart, UnderLock
<1>18. \A base : Named(base) => rec.blobRows = base[i]
  BY <1>1, <1>2, <1>7, <1>11 DEF Named, NamesOf
<1>19. StillAsItWas(rec)
  BY <1>8, <1>11 DEF StillAsItWas, ArchiveIsTrue
<1>20. drilled[t] # "passed"
  BY <1>8 DEF BackInv, TargetsOK, NothingThere
<1>21. rec \in Landed \cup {NothingThere} /\ rec.state # "restored"
  BY <1>10, <1>11
<1>22. \A v \in Workers \ {w} : act[v].at \in UnderLock => backupLock' = backupLock
  BY <1>15
<1>23. \A base : Named(base) /\ x.at = "objects" =>
         x.to = t /\ rec.blobRows = base[x.id]
  BY <1>12, <1>18
<1>24. x.at \notin {"repacking", "building"}
  BY <1>12
<1>25. TargetSet(w, x, t, rec)
  BY <1>7 DEF TargetSet
<1>26. t \in Targets /\ x \in Work
  BY <1>8, <1>12
<1>27. \A v \in Workers \ {w} : act[v].at \in {"building", "objects", "restored"} => act[v].to # t
  BY <1>16
<1>28. rec # NothingThere => StillAsItWas(rec)
  BY <1>19
<1>29. rec.state = "restored" /\ rec.promised => rec.blobs = rec.blobRows
  BY <1>21
<1> QED BY <1>14, <1>17, <1>20, <1>21, <1>22, <1>23, <1>24, <1>25, <1>26, <1>27, <1>28, <1>29, TargetChanges

\* The large objects follow, or the target goes.
LEMMA ObjectsOK ==
  ASSUME BackInv, NEW w \in Workers, restoreLfsObjects(w)
  PROVE  BackInv'
<1>1. PICK i : i = act[w].id
  OBVIOUS
<1>2. PICK t : t = act[w].to
  OBVIOUS
<1>3. PICK found \in BOOLEAN : found <=> (file[i].exists /\ (file[i].lfs = "outside" => file[i].blobRows = {}))
  OBVIOUS
<1>4. PICK rec : rec = IF found THEN [restored[t] EXCEPT !.state = "restored",
                                        !.blobs = IF file[i].lfs = "inside" THEN file[i].inside ELSE {}]
                       ELSE NothingThere
  OBVIOUS
<1>5. PICK x : x = IF found THEN [at |-> "restored", id |-> i, to |-> t]
                   ELSE [at |-> "failed", id |-> i, whole |-> file[i].exists]
  OBVIOUS
<1>6. /\ act[w].at = "objects" /\ restored' = [restored EXCEPT ![t] = rec] /\ act' = [act EXCEPT ![w] = x]
      /\ UNCHANGED <<repoRows, refs, pushes, blobRows, backupLock, file, listed, begun, answered, drilled>>
  BY <1>1, <1>2, <1>3, <1>4, <1>5 DEF restoreLfsObjects, liveVars
<1>7. /\ i \in 1 .. MaxArchives /\ i <= begun /\ t \in Targets /\ restored[t].state = "landed"
      /\ restored[t].promised => i \in answered
  BY <1>1, <1>2, <1>6, RunOf DEF WorkIsTrue
<1>8. restored[t] \in Landed /\ restored[t] # NothingThere
  BY <1>7 DEF BackInv, BackShape, NothingThere
<1>9. file[i].exists => file[i] \in Archive
  BY <1>7 DEF BackInv, BackShape, NoArchiveFile
<1>10. file[i].exists /\ ~ found => i \in Bucketed
  BY <1>3, <1>7 DEF BackInv, FilesOK
<1>11. ASSUME found
       PROVE  /\ rec \in Landed /\ rec.state = "restored" /\ rec.rows = restored[t].rows
              /\ rec.repos = restored[t].repos /\ rec.tip = restored[t].tip /\ rec.moved = restored[t].moved
              /\ rec.promised = restored[t].promised /\ rec.blobRows = restored[t].blobRows
              /\ rec.blobs = IF file[i].lfs = "inside" THEN file[i].inside ELSE {}
  <2>1. file[i] \in Archive
    BY <1>3, <1>9, <1>11
  <2>2. PICK s : s = IF file[i].lfs = "inside" THEN file[i].inside ELSE {}
    OBVIOUS
  <2>3. s \in SUBSET Blobs
    BY <2>1, <2>2 DEF Archive, Plain, Full
  <2>4. rec = [restored[t] EXCEPT !.state = "restored", !.blobs = s]
    BY <1>4, <1>11, <2>2
  <2> QED BY <1>8, <2>2, <2>3, <2>4 DEF Landed
<1>12. rec \in Landed \cup {NothingThere}
  BY <1>4, <1>11
<1>13. x \in Work /\ x.at \in {"restored", "failed"} /\ x.id = i
       /\ (x.at = "restored" => found /\ x.to = t) /\ (x.at = "failed" => ~ found /\ x.whole = file[i].exists)
  <2>1. CASE found
    <3>1. x = [at |-> "restored", id |-> i, to |-> t]
      BY <1>5, <2>1
    <3>2. x \in [at : {"objects", "restored"}, id : 1 .. MaxArchives, to : Targets]
      BY <1>7, <3>1
    <3> HIDE DEF Archive, Making
    <3> QED BY <2>1, <3>1, <3>2 DEF Work
  <2>2. CASE ~ found
    <3>1. x = [at |-> "failed", id |-> i, whole |-> file[i].exists]
      BY <1>5, <2>2
    <3>2. file[i] \in Archive \cup {NoArchiveFile}
      BY <1>7 DEF BackInv, BackShape
    <3>6. file[i].exists \in BOOLEAN
      <4>1. \A y \in Archive : y.exists = TRUE
        BY DEF Archive, Plain, Full
      <4>2. NoArchiveFile.exists = FALSE
        BY DEF NoArchiveFile
      <4> HIDE DEF Archive
      <4> QED BY <3>2, <4>1, <4>2
    <3>7. x \in [at : {"failed"}, id : 1 .. MaxArchives, whole : BOOLEAN]
      BY <1>7, <3>1, <3>6
    <3> HIDE DEF Archive, Making
    <3> QED BY <2>2, <3>1, <3>7 DEF Work
  <2> QED BY <2>1, <2>2
<1>14. restored'[t] = rec
  BY <1>6, <1>7 DEF BackInv, BackShape
<1>15. WorkIsTrue(x)' /\ x.at \notin UnderLock
  <2>1. x.at = "restored" => restored'[x.to].state = "restored"
    BY <1>11, <1>13, <1>14
  <2>2. x.at = "failed" /\ x.whole => x.id \in Bucketed
    BY <1>10, <1>13
  <2> QED BY <1>6, <1>7, <1>13, <2>1, <2>2 DEF WorkIsTrue, UnderLock
<1>16. \A v \in Workers \ {w} : WorkApart(act[v], x) /\ WorkApart(x, act[v])
  BY <1>1, <1>6, <1>13, ApartStays
<1>17. \A v \in Workers \ {w} : act[v].at \in {"building", "objects", "restored"} => act[v].to # t
  <2> SUFFICES ASSUME NEW v \in Workers \ {w}, act[v].at \in {"building", "objects", "restored"}, act[v].to = t
               PROVE  FALSE
    OBVIOUS
  <2>1. WorkIsTrue(act[v]) /\ WorkApart(act[v], act[w])
    BY RunOf
  <2> QED BY <1>2, <1>6, <1>7, <1>8, <2>1 DEF WorkIsTrue, WorkApart
<1>18. rec # NothingThere => StillAsItWas(rec)
  <2>1. StillAsItWas(restored[t])
    BY <1>7, <1>8 DEF BackInv, TargetsOK
  <2> QED BY <1>4, <1>11, <2>1 DEF StillAsItWas
<1>19. rec.state = "restored" /\ rec.promised => rec.blobs = rec.blobRows
  <2> SUFFICES ASSUME rec.state = "restored", rec.promised PROVE rec.blobs = rec.blobRows
    OBVIOUS
  <2>1. found
    BY <1>4 DEF NothingThere
  <2>2. i \in answered /\ file[i].exists
    BY <1>3, <1>7, <1>11, <2>1
  <2>3. file[i].lfs # "absent" /\ ArchiveIsTrue(file[i]) /\ file[i] \in Archive
    BY <1>7, <1>9, <2>2 DEF BackInv, FilesOK
  <2>4. rec.blobs = file[i].blobRows
    <3>1. CASE file[i].lfs = "inside"
      BY <1>11, <2>1, <2>3, <3>1 DEF ArchiveIsTrue
    <3>2. CASE file[i].lfs # "inside"
      <4>1. file[i].lfs = "outside"
        BY <2>3, <3>2 DEF Archive, Plain, Full
      <4> QED BY <1>3, <1>11, <2>1, <3>2, <4>1
    <3> QED BY <3>1, <3>2
  <2>5. PICK base \in [1 .. MaxArchives -> SUBSET Blobs] : Named(base)
    BY DEF BackInv, SameNames
  <2>6. file[i].blobRows = base[i] /\ restored[t].blobRows = base[i]
    BY <1>1, <1>2, <1>6, <1>7, <2>2, <2>5 DEF Named, NamesOf
  <2> QED BY <1>11, <2>1, <2>4, <2>6
<1>20. drilled[t] # "passed"
  BY <1>7 DEF BackInv, TargetsOK
<1>21. x.at \notin {"repacking", "building", "objects"}
  BY <1>13
<1>22. TargetSet(w, x, t, rec)
  BY <1>6 DEF TargetSet
<1>23. t \in Targets /\ x \in Work
  BY <1>7, <1>13
<1>24. \A v \in Workers \ {w} : act[v].at \in UnderLock => backupLock' = backupLock
  BY <1>6
<1>25. \A base : Named(base) /\ x.at = "objects" => x.to = t /\ rec.blobRows = base[x.id]
  BY <1>21
<1>26. x.at \notin {"repacking", "building"}
  BY <1>21
<1> QED BY <1>12, <1>15, <1>16, <1>17, <1>18, <1>19, <1>20, <1>22, <1>23, <1>24, <1>25, <1>26, TargetChanges

LEMMA RehearsalOK ==
  ASSUME BackInv, NEW w \in Workers, runRecoveryRehearsal(w)
  PROVE  BackInv'
<1>1. PICK t : t = act[w].to
  OBVIOUS
<1>2. PICK x : x = NotWorking
  OBVIOUS
<1>3. PICK d : d = IF checkRepositories(act[w].id, t) /\ checkLfsObjects(t) THEN "passed" ELSE "failed"
  OBVIOUS
<1>4. /\ act[w].at = "restored" /\ drilled' = [drilled EXCEPT ![t] = d] /\ act' = [act EXCEPT ![w] = x]
      /\ UNCHANGED <<repoRows, refs, pushes, blobRows, backupLock, file, listed, begun, answered, restored>>
  BY <1>1, <1>2, <1>3 DEF runRecoveryRehearsal, liveVars
<1>5. t \in Targets /\ restored[t].state = "restored"
  BY <1>1, <1>4, RunOf DEF WorkIsTrue
<1>6. d \in {"passed", "failed"} /\ (d = "passed" => restored[t].blobRows \subseteq restored[t].blobs)
  BY <1>3 DEF checkLfsObjects
<1>7. drilled' \in [Targets -> {"none", "passed", "failed"}] /\ drilled'[t] = d
      /\ \A u \in Targets : u # t => drilled'[u] = drilled[u]
  BY <1>4, <1>5, <1>6 DEF BackInv, BackShape
<1>8. \A u \in Targets : drilled'[u] = "passed" =>
        restored[u].state = "restored" /\ restored[u].blobRows \subseteq restored[u].blobs
  BY <1>5, <1>6, <1>7 DEF BackInv, TargetsOK
<1>9. x \in Work /\ x.at = "idle"
  BY <1>2 DEF Work, NotWorking
<1>10. listed' \subseteq 1 .. begun' /\ answered' \subseteq 1 .. begun'
       /\ begun' \in {begun, begun + 1} /\ begun' \in 0 .. MaxArchives
  BY <1>4 DEF BackInv, BackShape
<1>11. NewestIsThere'
  BY <1>4 DEF BackInv, NewestIsThere, Newer
<1>12. \A v \in Workers \ {w} : act[v].at \in {"listing", "bundling"} => act[v].id \notin answered'
  BY <1>4 DEF BackInv, WorkersOK, WorkIsTrue
<1>13. WorkIsTrue(x)' /\ x.at \notin UnderLock
  BY <1>9 DEF WorkIsTrue, UnderLock
<1>14. \A v \in Workers \ {w} : WorkApart(act[v], x) /\ WorkApart(x, act[v])
  BY <1>9 DEF WorkApart
<1>15. \A base \in [1 .. MaxArchives -> SUBSET Blobs] : NamesOf(base, x)
  BY <1>9 DEF NamesOf
<1>16. answered \subseteq answered' /\ (\A k \in answered' \ answered : file[k].exists => file[k].lfs # "absent")
       /\ UNCHANGED <<repoRows, refs, pushes, blobRows, file, restored, backupLock>>
  BY <1>4
<1> QED BY <1>4, <1>7, <1>8, <1>9, <1>10, <1>11, <1>12, <1>13, <1>14, <1>15, <1>16, WorkerActs

\* Files go; what is left of the list still has its newest archive.
LEMMA FilesGo ==
  ASSUME BackInv, file' \in [1 .. MaxArchives -> Archive \cup {NoArchiveFile}],
         \A k \in 1 .. MaxArchives : file'[k] = file[k] \/ file'[k] = NoArchiveFile,
         listed' \subseteq listed, NewestIsThere',
         UNCHANGED <<repoRows, refs, pushes, blobRows, backupLock, act, begun, answered, restored, drilled>>
  PROVE  BackInv'
<1>1. \A k \in 1 .. MaxArchives : file'[k].exists => file'[k] = file[k]
  BY DEF NoArchiveFile
<1>2. BackShape'
  BY DEF BackInv, BackShape
<1>3. \A w \in Workers : WorkIsTrue(act[w])'
  <2> SUFFICES ASSUME NEW w \in Workers PROVE WorkIsTrue(act[w])'
    OBVIOUS
  <2>1. PICK y : y = act[w]
    OBVIOUS
  <2>2. y \in Work /\ WorkIsTrue(y) /\ (y.at # "idle" => y.id \in 1 .. MaxArchives) /\ begun \in Nat
    BY <2>1, RunOf, BackupsAssumption DEF BackInv, BackShape
  <2>3. y.at \in {"listing", "bundling"} => ~ file'[y.id].exists /\ y.id \notin answered'
    BY <1>1, <2>2 DEF WorkIsTrue
  <2>4. y.at = "checking" /\ file'[y.id].exists => file'[y.id].lfs # "absent"
    BY <1>1, <2>2 DEF WorkIsTrue
  <2>5. y.at = "building" => restored'[y.to] = NothingThere
    BY <2>2 DEF WorkIsTrue
  <2>6. WorkIsTrue(y)'
    BY <2>2, <2>3, <2>4, <2>5, StillTrue
  <2> QED BY <2>1, <2>6 DEF WorkIsTrue, InTheMaking, ArchiveIsTrue
<1>4. WorkersOK'
  <2>1. \A v, w \in Workers : v # w => WorkApart(act[v], act[w])'
    BY DEF BackInv, WorkersOK, WorkApart
  <2> QED BY <1>3, <2>1 DEF BackInv, WorkersOK
<1>5. FilesOK'
  <2>1. \A k \in 1 .. MaxArchives : (file[k].exists => k <= begun /\ ArchiveIsTrue(file[k]))'
    BY <1>1 DEF BackInv, FilesOK, ArchiveIsTrue
  <2>2. \A k \in answered : k \in 1 .. MaxArchives
    BY BackupsAssumption DEF BackInv, BackShape
  <2> QED BY <1>1, <2>1, <2>2 DEF BackInv, FilesOK
<1>6. SameNames'
  <2>1. PICK base \in [1 .. MaxArchives -> SUBSET Blobs] : Named(base)
    BY DEF BackInv, SameNames
  <2>2. \A k \in 1 .. MaxArchives : file'[k].exists => file'[k].blobRows = base[k]
    BY <1>1, <2>1 DEF Named, NamesOf
  <2>3. Named(base)'
    BY <2>1, <2>2 DEF Named, NamesOf
  <2> QED BY <2>3 DEF SameNames
<1>7. TargetsOK'
  <2>1. TargetsOK
    BY DEF BackInv
  <2>2. \A t \in Targets : StillAsItWas(restored[t])' <=> StillAsItWas(restored[t])
    BY DEF StillAsItWas
  <2> QED BY <2>1, <2>2 DEF TargetsOK
<1> QED BY <1>2, <1>4, <1>5, <1>6, <1>7 DEF BackInv

\* The list, if there is one, has a last archive.
LEMMA LastListed ==
  ASSUME BackInv, listed # {}
  PROVE  \E k \in listed : Newer(k) = {}
<1> DEFINE S == {Newer(k) : k \in listed}
           R == StrictSubsetOrdering(listed)
<1>1. IsFiniteSet(listed) /\ \A k \in listed : k \in Nat
  <2>1. begun \in Nat /\ listed \subseteq 1 .. begun
    BY BackupsAssumption DEF BackInv, BackShape
  <2>2. IsFiniteSet(1 .. begun)
    BY <2>1, FS_Interval
  <2>3. IsFiniteSet(listed)
    BY <2>1, <2>2, FS_Subset
  <2>4. \A k \in listed : k \in Nat
    BY <2>1
  <2> QED BY <2>3, <2>4
<1>2. S \subseteq FiniteSubsetsOf(listed)
  <2>1. \A k \in listed : Newer(k) \subseteq listed
    BY DEF Newer
  <2>2. \A k \in listed : IsFiniteSet(Newer(k))
    BY <1>1, <2>1, FS_Subset
  <2> QED BY <2>1, <2>2 DEF FiniteSubsetsOf
<1>3. \E x \in S : \A y \in S : ~ (<<y, x>> \in R)
  <2>1. S # {}
    OBVIOUS
  <2> HIDE DEF S, R
  <2>2. IsWellFoundedOn(StrictSubsetOrdering(listed), FiniteSubsetsOf(listed))
    BY FS_StrictSubsetOrderingWellFounded
  <2> QED BY <1>2, <2>1, <2>2, WFMin DEF R
<1>4. PICK k \in listed : \A j \in listed : <<Newer(j), Newer(k)>> \notin R
  BY <1>3
<1>5. ASSUME NEW j \in Newer(k) PROVE FALSE
  <2>1. j \in listed /\ k \in Nat /\ j \in Nat /\ j > k
    BY <1>1 DEF Newer
  <2>2. Newer(j) \subseteq Newer(k) /\ j \notin Newer(j)
    <3>1. \A i \in listed : i > j => i > k
      BY <1>1, <2>1
    <3>2. ~ (j > j)
      BY <2>1
    <3> QED BY <3>1, <3>2 DEF Newer
  <2>3. Newer(j) \in SUBSET listed /\ Newer(k) \in SUBSET listed
    BY DEF Newer
  <2>4. <<Newer(j), Newer(k)>> \in R
    BY <1>5, <2>2, <2>3 DEF StrictSubsetOrdering
  <2> QED BY <1>4, <2>1, <2>4
<1> QED BY <1>5

\* The last archive of the list is none that retention takes.
LEMMA PrunableHasNewer ==
  ASSUME NEW before, NEW k \in Prunable(before)
  PROVE  k \in listed /\ Newer(k) # {}
<1>1. k \in listed /\ Cardinality(Newer(k)) >= KeepCount
  BY DEF Prunable
<1>2. Newer(k) = {} => Cardinality(Newer(k)) = 0
  BY FS_EmptySet
<1> QED BY <1>1, <1>2, BackupsAssumption

LEMMA PruneOK ==
  ASSUME BackInv, NEW before, pruneBackupSnapshots(before)
  PROVE  BackInv'
<1>1. /\ file' = [k \in 1 .. MaxArchives |-> IF k \in Prunable(before) THEN NoArchiveFile ELSE file[k]]
      /\ listed' = listed \ Prunable(before)
      /\ UNCHANGED <<repoRows, refs, pushes, blobRows, backupLock, act, begun, answered, restored, drilled>>
  BY DEF pruneBackupSnapshots, liveVars
<1>2. file \in [1 .. MaxArchives -> Archive \cup {NoArchiveFile}] /\ \A k \in listed : k \in 1 .. MaxArchives /\ k \in Nat
  BY BackupsAssumption DEF BackInv, BackShape
<1>3. NewestIsThere'
  <2> SUFFICES ASSUME NEW k \in listed', {j \in listed' : j > k} = {} PROVE file'[k].exists
    BY DEF NewestIsThere, Newer
  <2>1. PICK l \in listed : Newer(l) = {}
    BY <1>1, LastListed
  <2>2. l \in listed'
    BY <1>1, <2>1, PrunableHasNewer
  <2>3. k \in listed /\ k \notin Prunable(before)
    BY <1>1
  <2>4. k = l
    BY <1>2, <2>1, <2>2, <2>3 DEF Newer
  <2>5. file[k].exists
    BY <2>1, <2>4 DEF BackInv, NewestIsThere
  <2> QED BY <1>1, <1>2, <2>3, <2>5
<1>4. file' \in [1 .. MaxArchives -> Archive \cup {NoArchiveFile}]
      /\ \A k \in 1 .. MaxArchives : file'[k] = file[k] \/ file'[k] = NoArchiveFile
  BY <1>1, <1>2
<1> QED BY <1>1, <1>3, <1>4, FilesGo

LEMMA CutOffOK ==
  ASSUME BackInv, NEW before, PruneCutOff(before)
  PROVE  BackInv'
<1>1. PICK p \in Prunable(before) : file' = [file EXCEPT ![p] = NoArchiveFile]
  BY DEF PruneCutOff
<1>2. UNCHANGED <<repoRows, refs, pushes, blobRows, backupLock, act, listed, begun, answered, restored, drilled>>
  BY DEF PruneCutOff, liveVars
<1>3. p \in listed /\ Newer(p) # {}
  BY PrunableHasNewer
<1>4. file \in [1 .. MaxArchives -> Archive \cup {NoArchiveFile}] /\ \A k \in listed : k \in 1 .. MaxArchives
  BY BackupsAssumption DEF BackInv, BackShape
<1>5. file' \in [1 .. MaxArchives -> Archive \cup {NoArchiveFile}]
      /\ \A k \in 1 .. MaxArchives : file'[k] = IF k = p THEN NoArchiveFile ELSE file[k]
  BY <1>1, <1>3, <1>4
<1>6. NewestIsThere'
  BY <1>2, <1>3, <1>4, <1>5 DEF BackInv, NewestIsThere, Newer
<1> QED BY <1>2, <1>5, <1>6, FilesGo

LEMMA BackupsStep == BackInv /\ [BackupsNext]_backupVars => BackInv'
<1> SUFFICES ASSUME BackInv, [BackupsNext]_backupVars PROVE BackInv'
  OBVIOUS
<1>1. CASE \E r \in BackedRepos : RepositoryPurged(r) \/ \E f \in BackedRefs : PushLands(r, f)
  BY <1>1, PushOK, PurgedOK
<1>2. CASE (\E b \in Blobs : CollectBlob(b) \/ UploadBlob(b)) \/ RemoveLock \/ UNCHANGED backupVars
  <2>1. blobRows' \subseteq Blobs
    BY <1>2 DEF CollectBlob, UploadBlob, RemoveLock, backupVars, liveVars, BackInv, BackShape
  <2>2. \A w \in Workers : backupLock = w => backupLock' = w
    BY <1>2, BackupsAssumption DEF CollectBlob, UploadBlob, RemoveLock, backupVars
  <2>3. UNCHANGED <<repoRows, refs, pushes, act, file, listed, begun, answered, restored, drilled>>
    BY <1>2 DEF CollectBlob, UploadBlob, RemoveLock, backupVars, liveVars
  <2> QED BY <2>1, <2>2, <2>3, BesideBackupsOK
<1>3. CASE \E w \in Workers : WorkerStep(w)
  <2>1. PICK w \in Workers : WorkerStep(w)
    BY <1>3
  <2> QED BY <2>1, BackupBeginsOK, ListOK, BundleOK, PackOK, IndexOK, VerifyLiveOK, RepackOK, AnswerOK,
             BeginRestoreOK, BuildOK, RenameOK, ObjectsOK, RehearsalOK, DiesOK DEF WorkerStep
<1>4. CASE \E before \in 1 .. MaxArchives : pruneBackupSnapshots(before) \/ PruneCutOff(before)
  BY <1>4, PruneOK, CutOffOK
<1> QED BY <1>1, <1>2, <1>3, <1>4 DEF BackupsNext

\* Whichever archives were made from a bucket, what a restore leaves of a backup that
\* answered success has every reference that stood still and every large object, a
\* rehearsal passes over nothing less, retention keeps the newest archive, who holds the
\* lock is alone, and only an archive of the bucket is refused though it verified
\* (backups.mjs, backups-lfs.mjs, recovery-rehearsal.mjs).
THEOREM BackupsAreSound == BackupsSpec => []BackupsSound
<1>1. BackInv => BackupsSound
  BY BackupsHold
<1> QED BY BackStarts, BackupsStep, <1>1, PTL DEF BackupsSpec

-----------------------------------------------------------------------------
(* Payments: the links of a purchase.  A click is with the provider for a  *)
(* while and once; what PaymentsSound says of links on offer follows from  *)
(* who was with the provider when.                                         *)

Link == [seller : Sellers, org : Nat, key : Nat, state : {"open", "paid", "ended"}]
Busy(c) == click[c].pc \in {"asking", "made"}

Click == [pc : {"idle", "asking", "made", "ended"}, seller : Sellers \cup {"none"},
          org : Nat, at : Nat, link : Nat]

EventRows == [link : Nat, kind : Kinds, org : Nat,
              outcome : {"received", "applied", "ignored"}, wrote : BOOLEAN]

PayShape ==
  /\ tick \in Nat /\ holder \in Nat /\ founded \in Nat /\ links \in Seq(Link)
  /\ click \in [Clicks -> Click]
  /\ sessions \subseteq [by : Clicks, org : Nat, seller : Sellers, link : Nat, until : Nat]
  /\ unsent \subseteq [link : Nat, kind : Kinds] /\ seen \subseteq EventRows

\* l is a link of that provider for that organization.
LinkOf(l, seller, org) == l \in 1 .. Len(links) /\ links[l].seller = seller /\ links[l].org = org

\* What a click and a session say of their link.
ClickIsTrue(c) ==
  /\ Busy(c) => click[c].seller \in Sellers /\ click[c].org # 0
  /\ click[c].pc = "made" => LinkOf(click[c].link, click[c].seller, click[c].org)

SessionIsTrue(s) ==
  LinkOf(s.link, s.seller, s.org) /\ s.org = holder /\ holder # 0 /\ click[s.by].pc = "ended"

\* Clicks with the provider at one time are remembered, and so is a click that has got
\* its link while another was there.
WereTogether(c) ==
  Busy(c) =>
    /\ \A d \in Clicks : d # c /\ Busy(d) => <<c, d>> \in together /\ <<d, c>> \in together
    /\ \A s \in sessions :
         s.org = click[c].org /\ s.seller = click[c].seller /\ s.until > tick
           => <<c, s.by>> \in together /\ <<s.by, c>> \in together

\* A provider that takes a key makes one link under it.
OneUnderKey ==
  \A l, m \in 1 .. Len(links) :
    /\ links[l].seller \in Idempotent /\ links[l].seller = links[m].seller
    /\ links[l].org = links[m].org /\ links[l].key = links[m].key
    => l = m

\* What is told, written down or filed concerns a link that was paid.
Paid(l) == l \in 1 .. Len(links) /\ links[l].state # "open"

ToldOfPaid ==
  /\ \A e \in unsent : Paid(e.link)
  /\ bought.link # 0 => Paid(bought.link)
  /\ \A i \in invoices : Paid(i.link) /\ links[i.link].seller = i.seller
  /\ \A l \in replaced : Paid(l)

\* An event is the present organization's or nobody's, and what it wrote is on record.
Booked ==
  \A row \in seen : row.org # 0 =>
    /\ row.org = holder
    /\ row.wrote => row.link # 0 /\ row.link \in replaced \cup {bought.link}

PayInv ==
  /\ PayShape /\ \A c \in Clicks : ClickIsTrue(c) /\ WereTogether(c)
  /\ \A s \in sessions : SessionIsTrue(s)
  /\ OneUnderKey /\ ToldOfPaid /\ OneLinkOffered /\ Booked

LEMMA PaidForHolds == PayInv => PaymentsSound
<1> SUFFICES ASSUME PayInv PROVE PlanIsPaidFor
  BY DEF PayInv, PaymentsSound
<1> QED BY DEF PayInv, ToldOfPaid, Booked, Paid, PlanIsPaidFor

LEMMA PayStarts == PaymentsInit => PayInv
<1> SUFFICES ASSUME PaymentsInit PROVE PayInv
  OBVIOUS
<1>1. PayShape
  BY DEF PaymentsInit, PayShape, Click, NoClick
<1>2. \A c \in Clicks : ClickIsTrue(c) /\ WereTogether(c)
  BY DEF PaymentsInit, ClickIsTrue, WereTogether, Busy, NoClick
<1>3. links = <<>> /\ sessions = {} /\ unsent = {} /\ seen = {} /\ invoices = {} /\ replaced = {} /\ bought = NothingBought
  BY DEF PaymentsInit
<1>4. OneUnderKey /\ ToldOfPaid /\ OneLinkOffered /\ Booked
  BY <1>3 DEF OneUnderKey, ToldOfPaid, OneLinkOffered, Booked, NothingBought
<1> QED BY <1>1, <1>2, <1>3, <1>4 DEF PayInv

\* Links are added and paid; nothing else of them changes.
LinksKept ==
  /\ links' \in Seq(Link) /\ Len(links) <= Len(links')
  /\ \A l \in 1 .. Len(links) :
       /\ links'[l].seller = links[l].seller /\ links'[l].org = links[l].org /\ links'[l].key = links[l].key
       /\ links[l].state # "open" => links'[l].state # "open"

LEMMA StillThere ==
  ASSUME PayInv, LinksKept
  PROVE  /\ \A l : Paid(l) => Paid(l)' /\ links'[l].seller = links[l].seller
         /\ \A l, p, o : LinkOf(l, p, o) => LinkOf(l, p, o)' /\ links'[l].key = links[l].key
<1>1. Len(links) \in Nat /\ Len(links') \in Nat
  BY DEF PayInv, PayShape, LinksKept
<1>2. \A l \in 1 .. Len(links) : l \in 1 .. Len(links')
  BY <1>1 DEF LinksKept
<1> QED BY <1>2 DEF LinksKept, Paid, LinkOf

LEMMA OneUnderKeyStays ==
  ASSUME PayInv, LinksKept, Len(links') = Len(links)
  PROVE  OneUnderKey'
<1>1. \A l \in 1 .. Len(links) : links'[l].seller = links[l].seller /\ links'[l].org = links[l].org
                                 /\ links'[l].key = links[l].key
  BY DEF LinksKept
<1> QED BY <1>1 DEF PayInv, OneUnderKey

\* A provider changes a link, or makes one, and nothing of it is known here yet.
LEMMA BesideTheInstance ==
  ASSUME PayInv, LinksKept,
         UNCHANGED <<tick, holder, click, sessions, together, bought, replaced, invoices>>
  PROVE  /\ \A s \in sessions' : SessionIsTrue(s)'
         /\ \A c \in Clicks : ClickIsTrue(c)' /\ WereTogether(c)'
         /\ OneLinkOffered'
         /\ (\A e \in unsent' : Paid(e.link)') => ToldOfPaid'
<1>1. \A s \in sessions' : SessionIsTrue(s)'
  BY StillThere DEF PayInv, SessionIsTrue
<1>2. \A c \in Clicks : ClickIsTrue(c)' /\ WereTogether(c)'
  BY StillThere DEF PayInv, ClickIsTrue, WereTogether, Busy
<1>3. OneLinkOffered'
  <2>1. \A s \in sessions : links'[s.link].key = links[s.link].key
    BY StillThere DEF PayInv, SessionIsTrue
  <2> QED BY <2>1 DEF PayInv, OneLinkOffered
<1>4. (\A e \in unsent' : Paid(e.link)') => ToldOfPaid'
  BY StillThere DEF PayInv, ToldOfPaid
<1> QED BY <1>1, <1>2, <1>3, <1>4

\* The customer pays, a renewal fails, or the subscription ends.
LEMMA ChargeOK ==
  ASSUME PayInv, NEW l \in 1 .. Len(links), Charge(l) \/ ChargeFails(l) \/ EndAtProvider(l)
  PROVE  PayInv'
<1>2. links \in Seq(Link) /\ links[l] \in Link
  BY ElementOfSeq DEF PayInv, PayShape
<1>1. PICK st \in {"paid", "ended"} : links' = [links EXCEPT ![l].state = st]
  <2>1. CASE ChargeFails(l)
    <3>1. links' = links /\ links[l].state = "paid"
      BY <2>1 DEF ChargeFails
    <3>2. links' = [links EXCEPT ![l].state = "paid"]
      BY <1>2, <3>1 DEF Link
    <3> QED BY <3>2
  <2> QED BY <2>1 DEF Charge, EndAtProvider
<1>3. PICK k : k = [links[l] EXCEPT !.state = st]
  OBVIOUS
<1>4. k \in Link /\ k.state = st /\ k.seller = links[l].seller /\ k.org = links[l].org /\ k.key = links[l].key
  BY <1>2, <1>3 DEF Link
<1>5. links' = [links EXCEPT ![l] = k]
  BY <1>1, <1>3
<1>6. links' \in Seq(Link) /\ Len(links') = Len(links)
      /\ \A j \in 1 .. Len(links) : links'[j] = IF j = l THEN k ELSE links[j]
  <2> HIDE DEF Link
  <2> QED BY <1>2, <1>4, <1>5, ExceptSeq
<1>7. Len(links) \in Nat
  BY <1>2
<1>8. LinksKept
  BY <1>4, <1>6, <1>7 DEF LinksKept
<1>9. UNCHANGED <<tick, holder, founded, click, sessions, together, seen, bought, replaced, invoices>>
  BY DEF Charge, ChargeFails, EndAtProvider, billing
<1>11. unsent' \subseteq [link : Nat, kind : Kinds] /\ \A e \in unsent' \ unsent : e.link = l
  <2>1. PICK K \in SUBSET Kinds : unsent' = unsent \cup {[link |-> l, kind |-> q] : q \in K}
    <3>1. {"activated", "charged", "canceled", "failed"} \subseteq Kinds
      BY DEF Kinds, StatusOf
    <3>2. ChargeFails(l) => unsent' = unsent \cup {[link |-> l, kind |-> q] : q \in {"failed"}}
      BY DEF ChargeFails
    <3>3. EndAtProvider(l) => unsent' = unsent \cup {[link |-> l, kind |-> q] : q \in {"canceled"}}
      BY DEF EndAtProvider
    <3> QED BY <3>1, <3>2, <3>3 DEF Charge
  <2>2. l \in Nat
    BY <1>7
  <2> QED BY <2>1, <2>2 DEF PayInv, PayShape
<1>13. \A e \in unsent' : Paid(e.link)'
  <2>1. Paid(l)'
    BY <1>4, <1>6 DEF Paid
  <2> QED BY <1>8, <1>11, <2>1, StillThere DEF PayInv, ToldOfPaid
<1>10. PayShape'
  BY <1>6, <1>9, <1>11 DEF PayInv, PayShape
<1>14. Booked'
  BY <1>9 DEF PayInv, Booked
<1> QED BY <1>6, <1>8, <1>9, <1>10, <1>13, <1>14, BesideTheInstance, OneUnderKeyStays DEF PayInv

\* A click that is told of no link yet, or of one of its own, changes nothing else.
LEMMA ClickOK ==
  ASSUME PayInv, NEW c \in Clicks, Busy(c), NEW l, LinkOf(l, click[c].seller, click[c].org),
         click' = [click EXCEPT ![c].pc = "made", ![c].link = l],
         UNCHANGED <<tick, holder, founded, links, sessions, together, unsent, seen, bought, replaced, invoices>>
  PROVE  PayInv'
<1>1. /\ click' \in [Clicks -> Click]
      /\ \A d \in Clicks : click'[d].seller = click[d].seller /\ click'[d].org = click[d].org
      /\ \A d \in Clicks \ {c} : click'[d] = click[d]
      /\ click'[c].pc = "made" /\ click'[c].link = l
  <2>1. click \in [Clicks -> Click] /\ Len(links) \in Nat
    BY DEF PayInv, PayShape
  <2>2. click[c] \in Click /\ l \in Nat
    BY <2>1 DEF LinkOf
  <2>3. PICK k : k = [click[c] EXCEPT !.pc = "made", !.link = l]
    OBVIOUS
  <2>4. k \in Click /\ k.pc = "made" /\ k.link = l /\ k.seller = click[c].seller /\ k.org = click[c].org
    BY <2>2, <2>3 DEF Click
  <2>5. click' = [click EXCEPT ![c] = k]
    BY <2>1, <2>3
  <2> HIDE DEF Click
  <2> QED BY <2>1, <2>4, <2>5
<1>2. \A d \in Clicks : Busy(d)' <=> Busy(d)
  BY <1>1 DEF Busy
<1>3. PayShape'
  BY <1>1 DEF PayInv, PayShape
<1>4. \A d \in Clicks : ClickIsTrue(d)'
  BY <1>1, <1>2 DEF PayInv, ClickIsTrue, LinkOf
<1>5. \A d \in Clicks : WereTogether(d)'
  BY <1>1, <1>2 DEF PayInv, WereTogether
<1>6. \A s \in sessions : SessionIsTrue(s)'
  <2> SUFFICES ASSUME NEW s \in sessions PROVE SessionIsTrue(s)'
    OBVIOUS
  <2>1. SessionIsTrue(s) /\ s.by \in Clicks /\ s.by # c
    BY DEF PayInv, PayShape, SessionIsTrue, Busy
  <2> QED BY <1>1, <2>1 DEF SessionIsTrue, LinkOf
<1> QED BY <1>3, <1>4, <1>5, <1>6 DEF PayInv, OneUnderKey, ToldOfPaid, Paid, OneLinkOffered, Booked

\* Clicks that are over, whatever they were before.
LEMMA ClicksEnd ==
  ASSUME PayInv, NEW D \in SUBSET Clicks,
         click' = [d \in Clicks |-> IF d \in D THEN Ended ELSE click[d]],
         UNCHANGED <<tick, holder, links, sessions, together>>
  PROVE  /\ click' \in [Clicks -> Click]
         /\ \A d \in Clicks : ClickIsTrue(d)' /\ WereTogether(d)'
         /\ \A s \in sessions' : SessionIsTrue(s)'
<1>1. click \in [Clicks -> Click] /\ Ended \in Click /\ Ended.pc = "ended"
  BY DEF PayInv, PayShape, Ended, NoClick, Click
<1>2. /\ click' \in [Clicks -> Click] /\ \A d \in D : click'[d].pc = "ended"
      /\ \A d \in Clicks \ D : click'[d] = click[d]
  <2> HIDE DEF Click, Ended
  <2> QED BY <1>1
<1>4. \A d \in Clicks : ClickIsTrue(d)'
  BY <1>2 DEF PayInv, ClickIsTrue, LinkOf, Busy
<1>5. \A d \in Clicks : WereTogether(d)'
  BY <1>2 DEF PayInv, WereTogether, Busy
<1>6. \A s \in sessions : SessionIsTrue(s)'
  <2> SUFFICES ASSUME NEW s \in sessions PROVE SessionIsTrue(s)'
    OBVIOUS
  <2>1. SessionIsTrue(s) /\ s.by \in Clicks
    BY DEF PayInv, PayShape
  <2> QED BY <1>2, <2>1 DEF SessionIsTrue, LinkOf
<1> QED BY <1>2, <1>4, <1>5, <1>6

LEMMA EndsOK ==
  ASSUME PayInv, NEW c \in Clicks, click' = [click EXCEPT ![c] = Ended],
         UNCHANGED <<tick, holder, founded, links, sessions, together, unsent, seen, bought, replaced, invoices>>
  PROVE  PayInv'
<1>1. click' = [d \in Clicks |-> IF d \in {c} THEN Ended ELSE click[d]]
  BY DEF PayInv, PayShape
<1>2. /\ click' \in [Clicks -> Click]
      /\ \A d \in Clicks : ClickIsTrue(d)' /\ WereTogether(d)'
      /\ \A s \in sessions' : SessionIsTrue(s)'
  BY <1>1, ClicksEnd
<1>3. PayShape'
  BY <1>2 DEF PayInv, PayShape
<1> QED BY <1>2, <1>3 DEF PayInv, OneUnderKey, ToldOfPaid, Paid, OneLinkOffered, Booked

\* A click goes to the provider when no link of the organization's is on offer; all who
\* are there are written down.
LEMMA AsksOK ==
  ASSUME PayInv, NEW c \in Clicks, startCheckout(c)
  PROVE  PayInv'
<1>1. click \in [Clicks -> Click] /\ click[c].pc = "idle" /\ holder # 0 /\ holder \in Nat /\ tick \in Nat
  BY DEF PayInv, PayShape, startCheckout
<1>2. UNCHANGED <<tick, holder, founded, links, sessions, unsent, seen, bought, replaced, invoices>>
  BY DEF startCheckout, billing
<1>3. PICK p \in Sellers :
        \/ click' = [click EXCEPT ![c] = Ended] /\ UNCHANGED together
        \/ /\ reusableSession(c, p) = {}
           /\ click' = [click EXCEPT ![c] = [pc |-> "asking", seller |-> p, org |-> holder,
                                              at |-> tick, link |-> 0]]
           /\ together' = together \cup
                {pair \in Clicks \X Clicks :
                   \E d \in Clicks \ {c} : /\ click[d].pc \in {"asking", "made"}
                                           /\ pair \in {<<c, d>>, <<d, c>>}}
  BY DEF startCheckout
<1>4. CASE click' = [click EXCEPT ![c] = Ended] /\ UNCHANGED together
  BY <1>2, <1>4, EndsOK
<1>5. ASSUME reusableSession(c, p) = {},
             click' = [click EXCEPT ![c] = [pc |-> "asking", seller |-> p, org |-> holder,
                                            at |-> tick, link |-> 0]],
             together' = together \cup
               {pair \in Clicks \X Clicks :
                  \E d \in Clicks \ {c} : /\ click[d].pc \in {"asking", "made"}
                                          /\ pair \in {<<c, d>>, <<d, c>>}}
      PROVE  PayInv'
  <2>1. PICK k : k = [pc |-> "asking", seller |-> p, org |-> holder, at |-> tick, link |-> 0]
    OBVIOUS
  <2>2. k \in Click /\ k.pc = "asking" /\ k.seller = p /\ k.org = holder
    BY <1>1, <2>1 DEF Click
  <2>3. /\ click' \in [Clicks -> Click] /\ click'[c] = k
        /\ \A d \in Clicks \ {c} : click'[d] = click[d]
    <3> HIDE DEF Click
    <3> QED BY <1>1, <1>5, <2>1, <2>2
  <2>4. PayShape'
    BY <1>2, <2>3 DEF PayInv, PayShape
  <2>5. \A d \in Clicks : ClickIsTrue(d)'
    BY <1>1, <1>2, <2>2, <2>3 DEF PayInv, ClickIsTrue, LinkOf, Busy
  <2>6. \A d \in Clicks \ {c} : Busy(d) => <<c, d>> \in together' /\ <<d, c>> \in together'
    BY <1>5 DEF Busy
  <2>7. together \subseteq together'
    BY <1>5
  <2>8. \A s \in sessions : ~ (s.org = holder /\ s.seller = p /\ s.until > tick)
    BY <1>5 DEF reusableSession
  <2>9. \A d \in Clicks : WereTogether(d)'
    <3> SUFFICES ASSUME NEW d \in Clicks PROVE WereTogether(d)'
      OBVIOUS
    <3>1. CASE d = c
      BY <1>2, <2>2, <2>3, <2>6, <2>8, <3>1 DEF WereTogether, Busy
    <3>2. CASE d # c
      BY <1>2, <2>2, <2>3, <2>6, <2>7, <3>2 DEF PayInv, WereTogether, Busy
    <3> QED BY <3>1, <3>2
  <2>10. \A s \in sessions : SessionIsTrue(s)'
    <3> SUFFICES ASSUME NEW s \in sessions PROVE SessionIsTrue(s)'
      OBVIOUS
    <3>1. SessionIsTrue(s) /\ s.by \in Clicks /\ s.by # c
      BY <1>1 DEF PayInv, PayShape, SessionIsTrue
    <3> QED BY <1>2, <2>3, <3>1 DEF SessionIsTrue, LinkOf
  <2>11. OneLinkOffered'
    BY <1>2, <2>7 DEF PayInv, OneLinkOffered
  <2> QED BY <1>2, <2>4, <2>5, <2>9, <2>10, <2>11 DEF PayInv, OneUnderKey, ToldOfPaid, Paid, Booked
<1> QED BY <1>3, <1>4, <1>5

\* A new link is one more than there were, and nobody is told of it but its click.
LEMMA NewLinkOK ==
  ASSUME PayInv, NEW c \in Clicks, click[c].pc = "asking", NewLink(c),
         click[c].seller \in Idempotent => SameKey(c) = {},
         UNCHANGED <<tick, holder, founded, sessions, together, unsent, seen, bought, replaced, invoices>>
  PROVE  PayInv'
<1> DEFINE new == [seller |-> click[c].seller, org |-> click[c].org,
                   key |-> idempotencyKey(c), state |-> "open"]
           n == Len(links) + 1
<1>1. click \in [Clicks -> Click] /\ links \in Seq(Link) /\ Len(links) \in Nat
  BY DEF PayInv, PayShape
<1>2. click[c] \in Click /\ click[c].seller \in Sellers /\ click[c].org # 0
  <2>1. Busy(c)
    BY DEF Busy
  <2> QED BY <1>1, <2>1 DEF PayInv, ClickIsTrue
<1>3. idempotencyKey(c) \in Nat
  <2>1. click[c].at \in Nat
    BY <1>2 DEF Click
  <2> QED BY <2>1 DEF idempotencyKey, Window
<1>4. new \in Link /\ new.state = "open"
  BY <1>2, <1>3 DEF Link, Click
<1>5. /\ links' \in Seq(Link) /\ Len(links') = n /\ links'[n] = new
      /\ \A l \in 1 .. Len(links) : links'[l] = links[l]
  <2>1. links' = Append(links, new)
    BY DEF NewLink
  <2> HIDE DEF new, Link
  <2> QED BY <1>1, <1>4, <2>1, AppendProperties
<1>6. n \in Nat /\ n \in 1 .. n /\ 1 .. n = 1 .. Len(links) \cup {n} /\ n \notin 1 .. Len(links)
  BY <1>1
<1>7. LinksKept
  BY <1>1, <1>5 DEF LinksKept
<1>8. /\ click' \in [Clicks -> Click]
      /\ \A d \in Clicks : click'[d].seller = click[d].seller /\ click'[d].org = click[d].org
      /\ \A d \in Clicks \ {c} : click'[d] = click[d]
      /\ click'[c].pc = "made" /\ click'[c].link = n
  <2>1. PICK k : k = [click[c] EXCEPT !.pc = "made", !.link = n]
    OBVIOUS
  <2>2. k \in Click /\ k.pc = "made" /\ k.link = n /\ k.seller = click[c].seller /\ k.org = click[c].org
    BY <1>2, <1>6, <2>1 DEF Click
  <2>3. click' = [click EXCEPT ![c] = k]
    BY <1>1, <2>1 DEF NewLink
  <2> HIDE DEF Click, n
  <2> QED BY <1>1, <2>2, <2>3
<1>9. \A d \in Clicks : Busy(d)' <=> Busy(d)
  BY <1>8 DEF Busy
<1>10. PayShape'
  BY <1>5, <1>8 DEF PayInv, PayShape
<1>11. \A d \in Clicks : ClickIsTrue(d)'
  <2> SUFFICES ASSUME NEW d \in Clicks PROVE ClickIsTrue(d)'
    OBVIOUS
  <2>1. CASE d = c
    BY <1>2, <1>5, <1>6, <1>8, <2>1 DEF ClickIsTrue, LinkOf
  <2>2. CASE d # c
    <3>1. ClickIsTrue(d) /\ click'[d] = click[d]
      BY <1>8, <2>2 DEF PayInv
    <3> QED BY <1>7, <3>1, StillThere DEF ClickIsTrue, Busy
  <2> QED BY <2>1, <2>2
<1>12. \A d \in Clicks : WereTogether(d)'
  BY <1>8, <1>9 DEF PayInv, WereTogether
<1>13. \A s \in sessions : SessionIsTrue(s)'
  <2> SUFFICES ASSUME NEW s \in sessions PROVE SessionIsTrue(s)'
    OBVIOUS
  <2>1. SessionIsTrue(s) /\ s.by \in Clicks /\ s.by # c
    BY DEF PayInv, PayShape, SessionIsTrue
  <2> QED BY <1>7, <1>8, <2>1, StillThere DEF SessionIsTrue
<1>14. OneUnderKey'
  <2>1. \A l \in 1 .. Len(links) :
          ~ (/\ new.seller \in Idempotent /\ links[l].seller = new.seller
             /\ links[l].org = new.org /\ links[l].key = new.key)
    <3> SUFFICES ASSUME NEW l \in 1 .. Len(links), new.seller \in Idempotent, links[l].seller = new.seller,
                        links[l].org = new.org, links[l].key = new.key
                 PROVE  FALSE
      OBVIOUS
    <3>1. links[l] \in Link
      BY <1>1, ElementOfSeq
    <3>2. links[l] \in [seller : {click[c].seller}, org : {click[c].org},
                         key : {idempotencyKey(c)}, state : {"open", "paid", "ended"}]
      BY <3>1 DEF Link
    <3>3. l \in SameKey(c)
      BY <3>2 DEF SameKey
    <3> QED BY <3>3
  <2> HIDE DEF new, n
  <2> QED BY <1>5, <1>6, <2>1 DEF PayInv, OneUnderKey
<1>15. ToldOfPaid'
  BY <1>7, StillThere DEF PayInv, ToldOfPaid
<1>16. OneLinkOffered'
  <2>1. \A s \in sessions : links'[s.link].key = links[s.link].key
    BY <1>7, StillThere DEF PayInv, SessionIsTrue
  <2> QED BY <2>1 DEF PayInv, OneLinkOffered
<1>17. Booked'
  BY DEF PayInv, Booked
<1> QED BY <1>10, <1>11, <1>12, <1>13, <1>14, <1>15, <1>16, <1>17 DEF PayInv

\* The provider answers.
LEMMA MakesOK ==
  ASSUME PayInv, NEW c \in Clicks, createWithKey(c) \/ createAnew(c)
  PROVE  PayInv'
<1>1. click[c].pc = "asking" /\ Busy(c)
      /\ UNCHANGED <<tick, holder, founded, sessions, together, unsent, seen, bought, replaced, invoices>>
  BY DEF createWithKey, createAnew, billing, Busy
<1>2. CASE NewLink(c) /\ (click[c].seller \in Idempotent => SameKey(c) = {})
  BY <1>1, <1>2, NewLinkOK
<1>3. CASE UNCHANGED links /\ \E l \in SameKey(c) : click' = [click EXCEPT ![c].pc = "made", ![c].link = l]
  <2>1. PICK l \in SameKey(c) : click' = [click EXCEPT ![c].pc = "made", ![c].link = l]
    BY <1>3
  <2>2. LinkOf(l, click[c].seller, click[c].org)
    BY DEF SameKey, LinkOf
  <2> QED BY <1>1, <1>3, <2>1, <2>2, ClickOK
<1> QED BY <1>2, <1>3 DEF createWithKey, createAnew

\* A session is written down: what is on offer beside it was asked for at the same time.
LEMMA SessionOK ==
  ASSUME PayInv, NEW c \in Clicks, SessionStarts(c)
  PROVE  PayInv'
<1>0. PICK new : new = [by |-> c, org |-> holder, seller |-> click[c].seller,
                        link |-> click[c].link, until |-> click[c].at + Window]
  OBVIOUS
<1>1. /\ click[c].pc = "made" /\ click[c].org = holder /\ Busy(c)
      /\ sessions' = sessions \cup {new} /\ click' = [click EXCEPT ![c] = Ended]
      /\ UNCHANGED <<tick, holder, founded, links, together, unsent, seen, bought, replaced, invoices>>
  BY <1>0 DEF SessionStarts, billing, Busy
<1>2. click \in [Clicks -> Click] /\ click[c] \in Click /\ Ended \in Click /\ Ended.pc = "ended"
  BY DEF PayInv, PayShape, Ended, NoClick, Click
<1>3. /\ click' \in [Clicks -> Click] /\ click'[c].pc = "ended"
      /\ \A d \in Clicks \ {c} : click'[d] = click[d]
  <2> HIDE DEF Click, Ended
  <2> QED BY <1>1, <1>2
<1>4. ClickIsTrue(c) /\ WereTogether(c)
  BY DEF PayInv
<1>5. new \in [by : Clicks, org : Nat, seller : Sellers, link : Nat, until : Nat]
  <2>1. click[c].link \in Nat /\ click[c].at + Window \in Nat /\ click[c].seller \in Sellers
    BY <1>1, <1>2, <1>4 DEF Click, ClickIsTrue, Window
  <2> QED BY <1>0, <2>1 DEF PayInv, PayShape
<1>6. new.by = c /\ new.org = holder /\ new.seller = click[c].seller /\ new.link = click[c].link
  BY <1>0
<1>7. PayShape'
  BY <1>1, <1>3, <1>5 DEF PayInv, PayShape
<1>8. \A d \in Clicks : ClickIsTrue(d)'
  BY <1>1, <1>3 DEF PayInv, ClickIsTrue, LinkOf, Busy
<1>9. \A d \in Clicks : WereTogether(d)'
  <2> SUFFICES ASSUME NEW d \in Clicks PROVE WereTogether(d)'
    OBVIOUS
  <2>1. CASE d = c
    BY <1>3, <2>1 DEF WereTogether, Busy
  <2>2. CASE d # c
    <3>1. WereTogether(d) /\ click'[d] = click[d]
      BY <1>3, <2>2 DEF PayInv
    <3>2. Busy(d) => <<d, c>> \in together /\ <<c, d>> \in together
      BY <1>1, <2>2, <3>1 DEF WereTogether
    <3>3. \A e \in Clicks : Busy(e)' => Busy(e)
      BY <1>3 DEF Busy
    <3>4. Busy(d)' <=> Busy(d)
      BY <3>1 DEF Busy
    <3> QED BY <1>1, <1>6, <3>1, <3>2, <3>3, <3>4 DEF WereTogether
  <2> QED BY <2>1, <2>2
<1>10. SessionIsTrue(new)'
  BY <1>1, <1>3, <1>4, <1>6 DEF SessionIsTrue, ClickIsTrue, LinkOf
<1>11. \A s \in sessions' : SessionIsTrue(s)'
  <2> SUFFICES ASSUME NEW s \in sessions PROVE SessionIsTrue(s)'
    BY <1>1, <1>10
  <2>1. SessionIsTrue(s) /\ s.by \in Clicks /\ s.by # c
    BY <1>1 DEF PayInv, PayShape, SessionIsTrue
  <2> QED BY <1>1, <1>3, <2>1 DEF SessionIsTrue, LinkOf
<1>12. \A s \in sessions : s.until > tick /\ s.seller = new.seller /\ s.link # new.link =>
         /\ <<s.by, c>> \in together /\ <<c, s.by>> \in together
         /\ s.seller \in Idempotent => links[s.link].key # links[new.link].key
  <2> SUFFICES ASSUME NEW s \in sessions, s.until > tick, s.seller = new.seller, s.link # new.link
               PROVE  /\ <<s.by, c>> \in together /\ <<c, s.by>> \in together
                      /\ s.seller \in Idempotent => links[s.link].key # links[new.link].key
    OBVIOUS
  <2>1. SessionIsTrue(s)
    BY DEF PayInv
  <2>2. <<s.by, c>> \in together /\ <<c, s.by>> \in together
    BY <1>1, <1>4, <1>6, <2>1 DEF SessionIsTrue, WereTogether
  <2>3. LinkOf(s.link, s.seller, holder) /\ LinkOf(new.link, s.seller, holder)
    BY <1>1, <1>4, <1>6, <2>1 DEF SessionIsTrue, ClickIsTrue
  <2>4. s.seller \in Idempotent => links[s.link].key # links[new.link].key
    BY <2>3 DEF PayInv, OneUnderKey, LinkOf
  <2> QED BY <2>2, <2>4
<1>13. OneLinkOffered'
  <2> SUFFICES ASSUME NEW s \in sessions', NEW t \in sessions', s.until > tick, t.until > tick,
                      s.seller = t.seller, s.link # t.link
               PROVE  <<s.by, t.by>> \in together
                      /\ (s.seller \in Idempotent => links[s.link].key # links[t.link].key)
    BY <1>1 DEF OneLinkOffered
  <2>1. CASE s \in sessions /\ t \in sessions
    BY <2>1 DEF PayInv, OneLinkOffered
  <2>2. CASE s = new /\ t \in sessions
    BY <1>6, <1>12, <2>2
  <2>3. CASE s \in sessions /\ t = new
    BY <1>6, <1>12, <2>3
  <2> QED BY <1>1, <2>1, <2>2, <2>3
<1>14. OneUnderKey' /\ ToldOfPaid' /\ Booked'
  BY <1>1 DEF PayInv, OneUnderKey, ToldOfPaid, Paid, Booked
<1> QED BY <1>7, <1>8, <1>9, <1>11, <1>13, <1>14 DEF PayInv

\* However far an event got, what it says is of a link that was paid, and what the row
\* stood on before is filed.
LEMMA EventOK ==
  ASSUME PayInv, NEW e \in unsent, invoices' = Invoiced(e),
         UNCHANGED <<holder, links>>, unsent' \subseteq unsent,
         NEW outcome \in {"received", "applied", "ignored"},
         \/ UNCHANGED <<seen, bought, replaced>>
         \/ /\ seen' = seen \cup {EventRow(e, outcome, FALSE)} /\ UNCHANGED bought
            /\ replaced' = replaced \/ replaced' = Superseded(e)
         \/ /\ seen' = seen \cup {EventRow(e, outcome, TRUE)} /\ replaced' = Superseded(e)
            /\ \E ends : bought' = Upserted(e, ends)
  PROVE  ToldOfPaid' /\ Booked' /\ seen' \subseteq EventRows /\ unsent' \subseteq [link : Nat, kind : Kinds]
<1>1. Paid(e.link) /\ e.link # 0
  BY DEF PayInv, ToldOfPaid, Paid
<1>2. \A i \in invoices' : Paid(i.link) /\ links[i.link].seller = i.seller
  <2>1. \A i \in invoices' : i \in invoices \/ i = [seller |-> links[e.link].seller, link |-> e.link]
    <3>1. invoices' = invoices \/ invoices' = recordInvoice(e.link)
      BY DEF Invoiced
    <3> QED BY <3>1 DEF recordInvoice
  <2> QED BY <1>1, <2>1 DEF PayInv, ToldOfPaid
<1>3. \/ bought' = bought
      \/ seen' = seen \cup {EventRow(e, outcome, TRUE)} /\ replaced' = Superseded(e) /\ bought'.link = e.link
  <2>1. \A x : Upserted(e, x).link = e.link
    BY DEF Upserted
  <2> QED BY <2>1
<1>4. replaced \subseteq replaced' /\ replaced' \subseteq replaced \cup ({bought.link} \ {0})
  BY DEF Superseded
<1>5. ToldOfPaid'
  BY <1>1, <1>2, <1>3, <1>4 DEF PayInv, ToldOfPaid, Paid
<1>6. \A w \in BOOLEAN : EventRow(e, outcome, w) \in EventRows
  BY DEF PayInv, PayShape, EventRow, EventRows, organizationFor
<1>7. \A w : /\ EventRow(e, outcome, w).org \in {0, holder} /\ EventRow(e, outcome, w).link = e.link
             /\ EventRow(e, outcome, w).wrote = w
  BY DEF EventRow, organizationFor
<1>8. bought'.link # bought.link => bought.link = 0 \/ bought.link \in replaced'
  BY <1>3 DEF Superseded
<1>9. Booked'
  <2> SUFFICES ASSUME NEW row \in seen', row.org # 0
               PROVE  /\ row.org = holder
                      /\ row.wrote => row.link # 0 /\ row.link \in replaced' \cup {bought'.link}
    BY DEF Booked
  <2>1. CASE row \in seen
    BY <1>4, <1>8, <2>1 DEF PayInv, Booked
  <2>2. CASE row = EventRow(e, outcome, FALSE)
    BY <1>7, <2>2
  <2>3. CASE row = EventRow(e, outcome, TRUE) /\ bought'.link = e.link
    BY <1>1, <1>7, <2>3
  <2>4. \/ row \in seen \/ row = EventRow(e, outcome, FALSE)
        \/ row = EventRow(e, outcome, TRUE) /\ bought'.link = e.link
    <3>1. \A x : Upserted(e, x).link = e.link
      BY DEF Upserted
    <3> QED BY <3>1
  <2> QED BY <2>1, <2>2, <2>3, <2>4
<1> QED BY <1>5, <1>6, <1>9 DEF PayInv, PayShape

\* An event is taken in, or cut short with every click at the provider.
LEMMA IngestOK ==
  ASSUME PayInv, ingestBillingEvent \/ IngestCutShort
  PROVE  PayInv'
<1>1. UNCHANGED <<tick, holder, founded, links, sessions, together>> /\ unsent' \subseteq unsent
  BY DEF ingestBillingEvent, IngestCutShort, buying
<1>2. ToldOfPaid' /\ Booked' /\ seen' \subseteq EventRows /\ unsent' \subseteq [link : Nat, kind : Kinds]
  <2>1. CASE ingestBillingEvent
    <3>1. PICK e \in unsent :
            /\ invoices' = Invoiced(e)
            /\ \/ UNCHANGED <<seen, bought, replaced>>
               \/ /\ seen' = seen \cup {EventRow(e, "ignored", FALSE)} /\ UNCHANGED <<bought, replaced>>
               \/ /\ seen' = seen \cup {EventRow(e, "applied", TRUE)} /\ replaced' = Superseded(e)
                  /\ \E ends : bought' = Upserted(e, ends)
      BY <2>1 DEF ingestBillingEvent
    <3> QED BY <1>1, <3>1, EventOK
  <2>2. CASE IngestCutShort
    <3>1. PICK e \in unsent :
            /\ invoices' = Invoiced(e)
            /\ \/ UNCHANGED <<seen, bought, replaced>>
               \/ /\ seen' = seen \cup {EventRow(e, "received", FALSE)} /\ UNCHANGED bought
                  /\ replaced' = replaced \/ replaced' = Superseded(e)
               \/ /\ seen' = seen \cup {EventRow(e, "received", TRUE)} /\ replaced' = Superseded(e)
                  /\ \E ends : bought' = Upserted(e, ends)
      BY <2>2 DEF IngestCutShort
    <3> QED BY <1>1, <3>1, EventOK
  <2> QED BY <2>1, <2>2
<1>3. PICK D \in SUBSET Clicks : click' = [d \in Clicks |-> IF d \in D THEN Ended ELSE click[d]]
  <2>1. CASE ingestBillingEvent
    <3>1. click' = click /\ click \in [Clicks -> Click]
      BY <2>1 DEF ingestBillingEvent, buying, PayInv, PayShape
    <3>2. PICK D \in SUBSET Clicks : \A c \in Clicks : c \notin D
      <4>1. {} \in SUBSET Clicks /\ \A c \in Clicks : c \notin {}
        OBVIOUS
      <4> QED BY <4>1
    <3>3. click' = [d \in Clicks |-> IF d \in D THEN Ended ELSE click[d]]
      <4> HIDE DEF Click, Ended
      <4> QED BY <3>1, <3>2
    <3> QED BY <3>3
  <2>2. CASE IngestCutShort
    <3>1. click' = [d \in Clicks |-> IF d \in {c \in Clicks : Busy(c)} THEN Ended ELSE click[d]]
      BY <2>2 DEF IngestCutShort, Busy
    <3> QED BY <3>1
  <2> QED BY <2>1, <2>2
<1>4. /\ click' \in [Clicks -> Click]
      /\ \A d \in Clicks : ClickIsTrue(d)' /\ WereTogether(d)'
      /\ \A s \in sessions' : SessionIsTrue(s)'
  BY <1>1, <1>3, ClicksEnd
<1>5. PayShape'
  BY <1>1, <1>2, <1>4 DEF PayInv, PayShape
<1> QED BY <1>1, <1>2, <1>4, <1>5 DEF PayInv, OneUnderKey, OneLinkOffered

\* The customer asks for the end, or takes it back; the link stands.
LEMMA IntentOK ==
  ASSUME PayInv, recordCancellationIntent
  PROVE  PayInv'
<1>1. /\ bought'.link = bought.link
      /\ UNCHANGED <<tick, holder, founded, click, links, sessions, together, unsent, seen, replaced, invoices>>
  BY DEF recordCancellationIntent, buying
<1> QED BY <1>1 DEF PayInv, PayShape, ClickIsTrue, LinkOf, WereTogether, Busy, SessionIsTrue, OneUnderKey,
                    OneLinkOffered, ToldOfPaid, Paid, Booked

\* The organization goes, or another is founded under the slug.
LEMMA HolderOK ==
  ASSUME PayInv, DeleteOrganization \/ FoundOrganization
  PROVE  PayInv'
<1>1. UNCHANGED <<tick, click, links, together, unsent>>
  BY DEF DeleteOrganization, FoundOrganization, buying, billing
<1>2. sessions' = {} /\ holder' \in Nat /\ founded' \in Nat
  <2>1. holder = 0 => sessions = {}
    BY DEF PayInv, SessionIsTrue
  <2> QED BY <2>1 DEF PayInv, PayShape, DeleteOrganization, FoundOrganization, buying
<1>3. \/ bought' = NothingBought /\ replaced' = {} /\ invoices' = {}
      \/ UNCHANGED <<bought, replaced, invoices>>
  BY DEF DeleteOrganization, FoundOrganization, billing
<1>4. ToldOfPaid'
  BY <1>1, <1>3 DEF PayInv, ToldOfPaid, Paid, NothingBought
<1>5. seen' \subseteq EventRows /\ \A row \in seen' : row.org = 0
  <2>1. CASE DeleteOrganization
    <3>1. seen' = {[row EXCEPT !.org = 0] : row \in seen} /\ seen \subseteq EventRows
      BY <2>1 DEF DeleteOrganization, PayInv, PayShape
    <3>2. \A row \in EventRows : [row EXCEPT !.org = 0] \in EventRows /\ [row EXCEPT !.org = 0].org = 0
      BY DEF EventRows
    <3> QED BY <3>1, <3>2
  <2>2. CASE FoundOrganization
    BY <2>2 DEF FoundOrganization, billing, PayInv, PayShape, Booked
  <2> QED BY <2>1, <2>2
<1>6. PayShape'
  BY <1>1, <1>2, <1>5 DEF PayInv, PayShape
<1>7. Booked'
  BY <1>5 DEF Booked
<1> QED
  BY <1>1, <1>2, <1>4, <1>6, <1>7 DEF PayInv, ClickIsTrue, LinkOf, WereTogether, Busy, OneUnderKey,
                                      OneLinkOffered

\* Time passes, an operator edits the settings, or nothing happens.
LEMMA AsideOK ==
  ASSUME PayInv, tick' = tick \/ tick' = tick + 1,
         UNCHANGED <<holder, founded, click, links, sessions, together, unsent, seen, bought, replaced, invoices>>
  PROVE  PayInv'
<1>1. tick \in Nat /\ tick' \in Nat
  BY DEF PayInv, PayShape
<1>2. \A s \in sessions : s.until > tick' => s.until > tick
  BY <1>1 DEF PayInv, PayShape
<1>3. PayShape'
  BY <1>1 DEF PayInv, PayShape
<1>4. \A c \in Clicks : ClickIsTrue(c)' /\ WereTogether(c)'
  BY <1>2 DEF PayInv, ClickIsTrue, LinkOf, WereTogether, Busy
<1>5. \A s \in sessions' : SessionIsTrue(s)'
  BY DEF PayInv, SessionIsTrue, LinkOf
<1>6. OneLinkOffered'
  BY <1>2 DEF PayInv, OneLinkOffered
<1>7. OneUnderKey' /\ ToldOfPaid' /\ Booked'
  BY DEF PayInv, OneUnderKey, ToldOfPaid, Paid, Booked
<1> QED BY <1>3, <1>4, <1>5, <1>6, <1>7 DEF PayInv

LEMMA PaymentsStep == PayInv /\ [PaymentsNext]_paymentVars => PayInv'
<1> SUFFICES ASSUME PayInv, [PaymentsNext]_paymentVars PROVE PayInv'
  OBVIOUS
<1>1. CASE CheckoutNext
  <2>1. PICK c \in Clicks : \/ startCheckout(c) \/ createWithKey(c) \/ createAnew(c)
                           \/ SessionStarts(c) \/ RequestFails(c)
    BY <1>1 DEF CheckoutNext
  <2>2. CASE RequestFails(c)
    BY <2>2, EndsOK DEF RequestFails, billing
  <2> QED BY <2>1, <2>2, AsksOK, MakesOK, SessionOK
<1>2. CASE \E l \in 1 .. Len(links) : Charge(l) \/ ChargeFails(l) \/ EndAtProvider(l)
  BY <1>2, ChargeOK
<1>3. CASE ingestBillingEvent \/ IngestCutShort
  BY <1>3, IngestOK
<1>4. CASE DeleteOrganization \/ FoundOrganization
  BY <1>4, HolderOK
<1>6. CASE recordCancellationIntent
  BY <1>6, IntentOK
<1>5. CASE RotateSecret \/ EditSetting \/ Tick \/ UNCHANGED paymentVars
  <2>1. (tick' = tick \/ tick' = tick + 1) /\
        UNCHANGED <<holder, founded, click, links, sessions, together, unsent, seen, bought, replaced, invoices>>
    BY <1>5 DEF RotateSecret, EditSetting, Tick, paymentVars, buying, billing
  <2> QED BY <2>1, AsideOK
<1> QED BY <1>1, <1>2, <1>3, <1>4, <1>5, <1>6 DEF PaymentsNext, SellerNext

\* Two links of one provider are on offer to an organization only from clicks that were
\* with the provider at one time, and with a key only from different half hours; a plan,
\* an invoice and a replaced subscription are of a link that was paid; and what an event
\* wrote into the row is there or filed, wherever the process died (billing-checkout.mjs,
\* billing.mjs, billing-superseded.mjs).
THEOREM PaymentsAreSound == PaymentsSpec => []PaymentsSound
<1>1. PayInv => PaymentsSound
  BY PaidForHolds
<1> QED BY PayStarts, PaymentsStep, <1>1, PTL DEF PaymentsSpec

=============================================================================

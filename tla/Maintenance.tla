----------------------------- MODULE Maintenance -----------------------------
(***************************************************************************)
(* Maintenance windows (src/src/maintenance-windows.mjs), the marker file  *)
(* they set and the guard that reads it (backups.mjs), the command line    *)
(* that sets it too, and the public status page (status-page.mjs).         *)
(*                                                                         *)
(* A window is a row; the marker is a file, written after the row, so a    *)
(* process may die between the two.  The guard asks once, when a request   *)
(* arrives.  `by`, `calm` and the times a window was started at are        *)
(* history variables.                                                      *)
(***************************************************************************)
EXTENDS Naturals, FiniteSets

CONSTANTS
  WindowIds, Admins,  \* windows, and operators of the instance
  Writes,             \* requests that write, over HTTP
  Incidents,          \* incidents of the status page
  Early,              \* MAINTENANCE.earlyStartMinutes
  LastHour,           \* bound
  Deaths              \* bound, 0 or 1: whether a process dies between row and marker

ASSUME MaintenanceAssumption == Early \in Nat /\ LastHour \in Nat /\ Deaths \in {0, 1}

VARIABLES
  hour,      \* the clock
  window,    \* window -> its row, or NoWindow
  marker,    \* config.maintenancePath: "off", or who switched it on
  write,     \* request -> "unsent", "let in", "refused" or "done"
  incident,  \* incident -> its severity and whether it is resolved, or NoIncident
  calm       \* no process died between row and marker, and the CLI kept away

maintVars == <<hour, window, marker, write, incident, calm>>

NoWindow == [state |-> "none"]
NoIncident == [severity |-> "none", resolved |-> TRUE]

MaintInit ==
  /\ hour = 0 /\ window = [w \in WindowIds |-> NoWindow] /\ marker = "off"
  /\ write = [q \in Writes |-> "unsent"] /\ incident = [i \in Incidents |-> NoIncident] /\ calm = TRUE

-----------------------------------------------------------------------------
(* The guard and the windows                                               *)

\* createMaintenanceGuard: reads, POST /api/backups and the four steps of a
\* window pass; every other write is refused, the scheduling of a window too.
Admitted == marker = "off"

Exists(w) == window[w] # NoWindow
InProgress(w) == Exists(w) /\ window[w].started /\ ~window[w].ended /\ ~window[w].cancelled
Standing(w) == Exists(w) /\ ~window[w].cancelled /\ ~window[w].ended

OverlapsApproved(s, e) ==
  \E w \in WindowIds : Standing(w) /\ window[w].approver # "nobody" /\ window[w].starts < e /\ window[w].ends > s
Overlaps(s, e) == \E w \in WindowIds : Standing(w) /\ window[w].starts < e /\ window[w].ends > s

scheduleMaintenanceWindow(a, w, s, e) ==
  /\ Admitted /\ ~Exists(w) /\ s < e /\ ~Overlaps(s, e)
  /\ window' = [window EXCEPT ![w] =
       [state |-> "row", by |-> a, approver |-> "nobody", starts |-> s, ends |-> e,
        started |-> FALSE, at |-> 0, ended |-> FALSE, cancelled |-> FALSE]]
  /\ UNCHANGED <<hour, marker, write, incident, calm>>

approveMaintenanceWindow(a, w) ==
  /\ Exists(w) /\ ~window[w].cancelled /\ window[w].approver = "nobody" /\ window[w].by # a
  /\ window' = [window EXCEPT ![w].approver = a]
  /\ UNCHANGED <<hour, marker, write, incident, calm>>

MayStart(w) ==
  /\ Exists(w) /\ ~window[w].cancelled /\ ~window[w].started /\ window[w].approver # "nobody"
  /\ hour + Early >= window[w].starts /\ hour <= window[w].ends

startMaintenanceWindow(w) ==
  /\ MayStart(w) /\ window' = [window EXCEPT ![w].started = TRUE, ![w].at = hour]
  /\ \/ marker' = "window" /\ UNCHANGED calm
     \/ calm /\ Deaths > 0 /\ calm' = FALSE /\ UNCHANGED marker
  /\ UNCHANGED <<hour, write, incident>>

endMaintenanceWindow(w) ==
  /\ Exists(w) /\ window[w].started /\ ~window[w].ended
  /\ window' = [window EXCEPT ![w].ended = TRUE]
  /\ \/ marker' = "off" /\ UNCHANGED calm
     \/ calm /\ Deaths > 0 /\ calm' = FALSE /\ UNCHANGED marker
  /\ UNCHANGED <<hour, write, incident>>

\* A window that has ended may still be cancelled.
cancelMaintenanceWindow(w) ==
  /\ Exists(w) /\ ~window[w].cancelled /\ (window[w].started => window[w].ended)
  /\ window' = [window EXCEPT ![w].cancelled = TRUE]
  /\ UNCHANGED <<hour, marker, write, incident, calm>>

\* npm run backup -- maintenance on | off
CliMaintenance ==
  /\ marker' = IF marker = "off" THEN "cli" ELSE "off"
  /\ calm' = FALSE /\ UNCHANGED <<hour, window, write, incident>>

-----------------------------------------------------------------------------
(* Requests, incidents, the clock                                          *)

Arrive(q) ==
  /\ write[q] = "unsent"
  /\ write' = [write EXCEPT ![q] = IF Admitted THEN "let in" ELSE "refused"]
  /\ UNCHANGED <<hour, window, marker, incident, calm>>

Finish(q) ==
  /\ write[q] = "let in" /\ write' = [write EXCEPT ![q] = "done"]
  /\ UNCHANGED <<hour, window, marker, incident, calm>>

publishIncident(i, severity) ==
  /\ Admitted /\ incident[i] = NoIncident
  /\ incident' = [incident EXCEPT ![i] = [severity |-> severity, resolved |-> FALSE]]
  /\ UNCHANGED <<hour, window, marker, write, calm>>

\* A later update may open a resolved incident again.
addIncidentUpdate(i) ==
  /\ Admitted /\ incident[i] # NoIncident
  /\ \E resolved \in BOOLEAN : incident' = [incident EXCEPT ![i].resolved = resolved]
  /\ UNCHANGED <<hour, window, marker, write, calm>>

\* statusSnapshot, from what is open and from the windows and the marker.
Severities == {incident[i].severity : i \in {j \in Incidents : ~incident[j].resolved}}
statusSnapshot ==
  IF "sev1" \in Severities THEN "outage"
  ELSE IF Severities # {} THEN "degraded"
  ELSE IF marker # "off" \/ \E w \in WindowIds : InProgress(w) THEN "maintenance" ELSE "operational"

Hour == hour < LastHour /\ hour' = hour + 1 /\ UNCHANGED <<window, marker, write, incident, calm>>

MaintNext ==
  \/ \E w \in WindowIds, a \in Admins :
       \/ \E s, e \in 0..LastHour : scheduleMaintenanceWindow(a, w, s, e)
       \/ approveMaintenanceWindow(a, w)
  \/ \E w \in WindowIds : startMaintenanceWindow(w) \/ endMaintenanceWindow(w) \/ cancelMaintenanceWindow(w)
  \/ CliMaintenance \/ Hour
  \/ \E q \in Writes : Arrive(q) \/ Finish(q)
  \/ \E i \in Incidents : addIncidentUpdate(i) \/ \E severity \in {"sev1", "sev2"} : publishIncident(i, severity)

MaintSpec == MaintInit /\ [][MaintNext]_maintVars

-----------------------------------------------------------------------------

\* A window starts by the agreement of two, no earlier and no later than agreed.
StartedByAgreement ==
  \A w \in WindowIds : Exists(w) /\ window[w].started =>
    /\ window[w].approver \notin {"nobody", window[w].by}
    /\ window[w].at + Early >= window[w].starts /\ window[w].at <= window[w].ends

\* No two windows that still stand are planned for the same time.
PlansDisjoint ==
  \A v, w \in WindowIds : v # w /\ Standing(v) /\ Standing(w) =>
    window[v].ends <= window[w].starts \/ window[w].ends <= window[v].starts

\* Left to the windows, the instance leaves the maintenance it entered: some
\* window can be ended; and only the end of another window, one that overran,
\* takes maintenance from a window in progress.
CanBeLeft ==
  calm =>
    /\ marker # "off" => \E w \in WindowIds : Exists(w) /\ window[w].started /\ ~window[w].ended
    /\ \A w \in WindowIds : InProgress(w) /\ marker = "off" =>
         \E v \in WindowIds \ {w} : Exists(v) /\ window[v].ended

\* The page never calls operational an instance that refuses writes.
PageAdmitsIt == marker # "off" => statusSnapshot # "operational"

\* Maintenance is entered by agreement, at the time agreed, by windows whose
\* plans are disjoint, can be left through the API, and is on the status page
\* (maintenance-windows.mjs, createMaintenanceGuard, status-page.mjs).
MaintenanceSound == StartedByAgreement /\ PlansDisjoint /\ CanBeLeft /\ PageAdmitsIt

\* What docs/MAINTENANCE_WINDOWS.md says of overlapping windows: the instance
\* is read-only while a window is in progress.
InProgressIsReadOnly == calm => \A w \in WindowIds : InProgress(w) => marker # "off"

=============================================================================

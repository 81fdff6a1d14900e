----------------------------- MODULE MCOperations -----------------------------
(***************************************************************************)
(* What the operators of an instance do: backups, maintenance windows,     *)
(* moderation, the move to another database with the observer of its       *)
(* shadow, the move of a tenant to another instance, and the payment       *)
(* providers.  State spaces of their own checked by one run; the initial   *)
(* state decides which one moves.                                          *)
(***************************************************************************)
EXTENDS Backups, Maintenance, Moderation, DatabaseMove, TenantMove, Payments, TLC

CONSTANTS r1, r2, a1, a2, w1, w2  \* members of the sets the states are symmetric in

VARIABLE part

allVars == <<backupVars, maintVars, moderationVars, moveVars, observerVars, tenantVars,
             paymentVars, part>>

Parts == {"backups", "maintenance", "moderation", "database", "observer", "tenant", "payments"}

Init ==
  /\ BackupsInit /\ MaintInit /\ ModerationInit /\ MoveInit /\ ObserverInit
  /\ TenantInit /\ PaymentsInit
  /\ part \in Parts
  /\ part # "moderation" => place = [r \in Hosted |-> IF r = r1 THEN "a/x" ELSE "gone"]
  /\ part # "tenant" => /\ src = Rows /\ srcDirs = Repos /\ srcObject /\ accounts = People
                        /\ strays = {} /\ ~object.row
  /\ part # "payments" => "price" \in set["stripe"]

Still(p) ==
  /\ p # "backups" => UNCHANGED backupVars
  /\ p # "maintenance" => UNCHANGED maintVars
  /\ p # "moderation" => UNCHANGED moderationVars
  /\ p # "database" => UNCHANGED moveVars
  /\ p # "observer" => UNCHANGED observerVars
  /\ p # "tenant" => UNCHANGED tenantVars
  /\ p # "payments" => UNCHANGED paymentVars

Next ==
  /\ UNCHANGED part /\ Still(part)
  /\ \/ part = "backups" /\ BackupsNext
     \/ part = "maintenance" /\ MaintNext
     \/ part = "moderation" /\ ModerationNext
     \/ part = "database" /\ MoveNext
     \/ part = "observer" /\ ObserverNext
     \/ part = "tenant" /\ TenantNext
     \/ part = "payments" /\ PaymentsNext

Spec == Init /\ [][Next]_allVars

\* What is left out is that two of these meet: settings edited, a second organization and
\* time; events taken in the last quarter of an hour, and more than three taken or five in
\* all; a subscription that ends, an event cut short or a charge that fails and any of
\* those, or with three events taken; a second archive and a second push, which no process
\* dies beside; a case reported twice, a move or an appeal under way and a read, with both
\* appeals only while a repository is gone; a schema dropped and a write; a shadow read and
\* two attempts at work; directories in the way at the target and a gap at the source.
Affordable ==
  /\ edits = 0 \/ (founded = 1 /\ tick = 0)
  /\ founded = 2 => tick = 0
  /\ Cardinality(seen) <= 3 /\ Cardinality(seen) + Cardinality(unsent) <= 5
  /\ tick = LastTick => Cardinality(seen) <= 1
  /\ bought.ends \/ interrupted = 1 => tick = 0 /\ edits = 0 /\ founded = 1
  /\ interrupted = 1 => Cardinality(seen) <= 2 /\ Cardinality(unsent) <= 2
  /\ edits = 1 => Cardinality(seen) <= 1
  /\ (\E e \in unsent \cup seen : e.kind = "failed") => tick = 0 /\ edits = 0 /\ founded = 1
  /\ cuts = 0 \/ pushes = 1
  /\ begun = 2 => pushes <= 1 /\ cuts = 0
  /\ (\E m \in Moves : move[m].op # "none") \/ (\E a \in AppealIds : appeal[a] # NoAppeal) =>
       (\A c \in CaseIds : case[c].reports < 2) /\ \A f \in Fetches : fetch[f].op = "none"
  /\ (\A a \in AppealIds : appeal[a] # NoAppeal) => \E r \in Hosted : place[r] = "gone"
  /\ recreated = 0 \/ writes = 0
  /\ shadow.pc # "none" => \E a \in Attempts : imp[a].pc \in {"idle", "ended"}
  /\ strays # {} => srcObject /\ srcDirs = Repos

\* Repositories, cases with imports, clicks, attempts and administrators, and windows
\* with workers are interchangeable.
Symmetry == Permutations({r1, r2}) \cup Permutations({a1, a2}) \cup Permutations({w1, w2})

-----------------------------------------------------------------------------
\* What was ordered stands: writing stops for the windows that say so and for no
\* other, and a repository is closed exactly while a case or an appeal says so.
OrdersStand == MaintenanceSound /\ ModerationSound

\* A database, or a tenant, arrives as it left or its report says it did not, and
\* watching the new database never holds up the old one.
MovesAreTrue == MoveIsSound /\ ObserverSound /\ TenantMoveSound
=============================================================================

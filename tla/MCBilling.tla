------------------------------ MODULE MCBilling ------------------------------
(***************************************************************************)
(* How an organization comes, pays and goes: its bulk imports, its         *)
(* subscription and its deletion.  Three state spaces of their own checked *)
(* by one run; the initial state decides which one moves.                  *)
(*                                                                         *)
(* Two plans are bought one after the other or at once: one from a         *)
(* provider that reports a pending cancellation, one from a provider that  *)
(* does not.                                                               *)
(***************************************************************************)
EXTENDS Billing, ImportJob, TenantDeletion, TLC

CONSTANTS team_sub, business_sub

VARIABLE part

allVars == <<billingVars, jobVars, deletionVars, part>>

PlansBought == (team_sub :> "team") @@ (business_sub :> "business")

Init ==
  /\ BillingInit /\ JobInit /\ DeletionInit
  /\ part \in {"billing", "import", "deletion"}

Next ==
  /\ UNCHANGED part
  /\ \/ part = "billing" /\ BillingNext /\ UNCHANGED <<jobVars, deletionVars>>
     \/ part = "import" /\ JobNext /\ UNCHANGED <<billingVars, deletionVars>>
     \/ part = "deletion" /\ DeletionNext /\ UNCHANGED <<billingVars, jobVars>>

\* Whichever moves, the timers of the server and the days go on.
Spec == Init /\ [][Next]_allVars /\ (part = "billing" => BillingFairness)

\* A crash inside the ingestion leaves room for two events, not three.
Affordable == Len(sent) + billingCrashes <= MaxEvents

=============================================================================

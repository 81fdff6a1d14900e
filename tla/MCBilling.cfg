CONSTANTS
  team_sub = team_sub
  business_sub = business_sub
  Subscriptions = {team_sub, business_sub}
  Reporting = {business_sub}
  PlanOf <- PlansBought
  ManualPlan = "business"
  Null = Null
  GraceDays = 3
  ReminderDays = 2
  FinalDays = 1
  MaxEvents = 3
  MaxBillingCrashes = 1
  ItemCount = 3
  Private = {2, 3}
  MaxJobCrashes = 1
  Deletions = {"d1", "d2"}
  Exports = {"x1"}
  Writings = {"i1"}
  DeletionGraceDays = 1
  MaxHalfDays = 3
  MaxDeletionCrashes = 1
SPECIFICATION Spec
INVARIANTS
  BooksAgree
  EveryItemAccounted
  SurvivesDeletion
PROPERTIES
  WarnedBeforeFree
  UnpaidPlanEnds
CONSTRAINT Affordable
CHECK_DEADLOCK FALSE

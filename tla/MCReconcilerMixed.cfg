SPECIFICATION MCSpec
CONSTANTS
  UserSpecs <- MixedSpecs
  Replicas = {1, 2}
  OldObject = TRUE
  OtherResource = TRUE
  Defaulting = FALSE
  ConfigPort = 8080
  MaxUids = 1
  MaxChanges = 1
  MaxOutside = 1
  MaxErrors = 1
  MaxCrashes = 1
  Budgets <- MixedBudgets
INVARIANTS
  CustomRestsWhenDone
PROPERTIES
  ReplicasKept
CHECK_DEADLOCK FALSE

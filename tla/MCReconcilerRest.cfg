SPECIFICATION MCFairSpec
CONSTANTS
  UserSpecs <- KubernetesSpecs
  Replicas = {1, 2}
  OldObject = FALSE
  OtherResource = FALSE
  Defaulting = TRUE
  ConfigPort = 8080
  MaxUids = 2
  MaxChanges = 1
  MaxOutside = 1
  MaxErrors = 1
  MaxCrashes = 1
  Budgets <- RestBudgets
INVARIANTS
  TypeOK
  
PROPERTIES
  ComesToRest
CHECK_DEADLOCK FALSE

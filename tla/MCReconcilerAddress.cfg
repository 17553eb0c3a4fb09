SPECIFICATION MCSpec
CONSTANTS
  UserSpecs <- PortSpecs
  Replicas = {1, 2}
  OldObject = FALSE
  OtherResource = FALSE
  Defaulting = FALSE
  ConfigPort = 8080
  MaxUids = 1
  MaxChanges = 0
  MaxOutside = 0
  MaxErrors = 0
  MaxCrashes = 0
  Budgets <- AddressBudgets
INVARIANTS
  AddressIsServed
CHECK_DEADLOCK FALSE

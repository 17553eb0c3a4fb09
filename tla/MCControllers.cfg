SPECIFICATION MCSpec
CONSTANTS
    Replicas = {r1, r2}
    MaxAttempts = 2
    ReconcileKind <- ReconcileEither
    Budgets <- MCBudgets
INVARIANTS
    TypeOK
    SettledAddressIsRight
PROPERTIES
    AddressConverges
CHECK_DEADLOCK FALSE

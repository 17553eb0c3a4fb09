SPECIFICATION MCSpec
CONSTANTS
    p1 = p1
    p2 = p2
    s1 = s1
    Pod = {p1, p2}
    Listener = {s1}
    NumCore = 2
    MaxExpiries = 1
    MaxErrors = 1
    MaxChanges = 1
    MaxStops = 2
    MaxSurges = 1
    Budgets <- RotationBudgets
INVARIANTS
    TypeOK
    PublishedWasStored
PROPERTIES
    SinkStaysUp
    

SPECIFICATION MCSpec
CONSTANTS
    p1 = p1
    p2 = p2
    s1 = s1
    Pod = {p1}
    Listener = {s1}
    NumCore = 2
    MaxExpiries = 0
    MaxErrors = 0
    MaxChanges = 1
    MaxStops = 0
    MaxSurges = 0
    Budgets <- ReinstallBudgets
PROPERTIES MissingBundleFilled

SPECIFICATION MCSpec
CONSTANTS
    r1 = r1
    r2 = r2
    v1 = v1
    v2 = v2
    alice = alice
    bob = bob
    NoValue = NoValue
    Request = {r1, r2}
    Value = {v1, v2}
    User = {alice, bob}
    SecretRef <- SecretRefs
    GithubStates <- States
    CallOf <- MCCallOf
    Loads = {1, 2, 3, 4}
    LoadOf <- MCLoadOf
    CacheSize = 1
    TTL = 1
    Timeout = 2
    Budgets <- MCBudgets
    Jobs <- MCJobs
    JobOf <- MCJobOf
    DocumentOf <- MCDocumentOf
INVARIANTS
    TypeOK
    
    OwnersApprove
    ExtensionsWhole
    ToolsFaithful
PROPERTIES
    Answered
    
CHECK_DEADLOCK FALSE

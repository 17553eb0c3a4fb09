SPECIFICATION MCSpec
CONSTANTS
    Loads <- MCLoads
    LoadOf <- MCLoadOf
    Retries = 2
    Calls = {c1, c2}
    Callers = {a, b}
    InformerTypes = {"el", "tb"}
    Channels = {"s", "t"}
    CustomResync = {"tb"}
    MaxCalls = 5
    Injections = {"i", "j"}
    Posts = {p1, p2}
    MaxObjects = 1
    Updates = 1
    ListErrors = 1
    ICalls = {i1}
    HeaderNames = {"X", "Eventlistener-Request-Url"}
    HeaderValues = {"v", "w"}
    MaxParams = 2
    CopyWorkers = {1, 2}
    Replacements = 1
INVARIANTS
    TypeOK
    SinkAsConfigured
    WaitsAreForAll
    InterceptorHeard
    CopiesApart
PROPERTIES
    SinkCatchesUp
    
CHECK_DEADLOCK FALSE

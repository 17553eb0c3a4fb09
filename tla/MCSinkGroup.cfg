\* A group of two triggers, one event
SPECIFICATION FairSpec
CONSTANTS
    t1 = t1
    t2 = t2
    t3 = t3
    g1 = g1
    home = home
    away = away
    l1 = l1
    star = star
    noSelector = noSelector
    invalidSelector = invalidSelector
    ELNamespace = home
    Namespace = {home, away}
    Label = {l1}
    Group = {g1}
    Star = star
    NoSelector = noSelector
    InvalidSelector = invalidSelector
    NoGroup = NoGroup
    NoJob = NoJob
    NoValue = NoValue
    TriggerNS <- MCTriggerNS
    TriggerLabels <- MCTriggerLabels
    Interceptors <- MCInterceptors
    GroupInterceptors <- MCGroupInterceptors
    NumResources <- MCNumResources
    AsJSON <- MCAsJSON
    Event = {e1}
    Trigger = {t1, t2}
    ELSpec <- GroupOnlySpecs
    PayloadValidation = FALSE
    Body = {"json", "form"}
    JSONBody = {"json"}
    FormBody = {"form"}
    Header = {"urlencoded"}
    FormHeader = {"urlencoded"}
    ExtKey = {"k"}
    MaxListerChanges = 1
    GroupSelector <- MCGroupSelectorAll
INVARIANTS
    ExtensionsIsolated
    GroupExtensionsReachTriggers
    WaitGroupCountsGoroutines
PROPERTIES
    ImplementsTriggerRuns
    

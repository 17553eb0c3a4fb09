\* What a group's webhook makes of the body
SPECIFICATION Spec
CONSTANTS
    t1 = t1
    t2 = t2
    t3 = t3
    g1 = g1
    home = home
    away = away
    l1 = l1
    star = star
    noSelector = noSelector
    invalidSelector = invalidSelector
    ELNamespace = home
    Namespace = {home, away}
    Label = {l1}
    Group = {g1}
    Star = star
    NoSelector = noSelector
    InvalidSelector = invalidSelector
    NoGroup = NoGroup
    NoJob = NoJob
    NoValue = NoValue
    TriggerNS <- MCTriggerNS
    TriggerLabels <- MCTriggerLabels
    Interceptors <- MCInterceptors
    GroupInterceptors <- MCGroupInterceptors
    GroupSelector <- MCGroupSelector
    NumResources <- MCNumResources
    AsJSON <- MCAsJSON
    Event = {e1}
    Trigger = {t1, t2}
    ELSpec <- GroupSpecs
    PayloadValidation = FALSE
    Body = {"json", "other"}
    JSONBody = {"json", "other"}
    FormBody = {}
    Header = {"plain"}
    FormHeader = {}
    ExtKey = {"k"}
    MaxListerChanges = 1
INVARIANTS
    GroupBodyReachesTriggers

\* Every branch of IsValidPayload, selectTriggers and merge, one event
SPECIFICATION Spec
CONSTANTS
    t1 = t1
    t2 = t2
    t3 = t3
    g1 = g1
    home = home
    away = away
    l1 = l1
    star = star
    noSelector = noSelector
    invalidSelector = invalidSelector
    ELNamespace = home
    Namespace = {home, away}
    Label = {l1}
    Group = {g1}
    Star = star
    NoSelector = noSelector
    InvalidSelector = invalidSelector
    NoGroup = NoGroup
    NoJob = NoJob
    NoValue = NoValue
    TriggerNS <- MCTriggerNS
    TriggerLabels <- MCTriggerLabels
    Interceptors <- MCInterceptors
    GroupInterceptors <- MCGroupInterceptors
    NumResources <- MCNumResources
    AsJSON <- MCAsJSON
    Event = {e1}
    Trigger = {t1, t2, t3}
    ELSpec <- SelectSpecs
    PayloadValidation = TRUE
    Body = {"json", "text"}
    JSONBody = {"json"}
    FormBody = {}
    Header = {"plain"}
    FormHeader = {}
    ExtKey = {"k"}
    MaxListerChanges = 1
    GroupSelector <- MCGroupSelectorInvalid
INVARIANTS
    TypeOK
    CreatedOnlyAfterWholeChain
    SuccessfulMeansAllCreated
    AnswerMatchesWork

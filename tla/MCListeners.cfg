SPECIFICATION MCSpec
CONSTANTS
    Workers = {w1, w2}
    Flags <- MCFlags
    Loads <- MCLoads
    LoadOf <- MCLoadOf
    Submitted <- MCSubmitted
    Scenarios <- MCScenarios
    ScenarioOf <- MCScenarioOf
    ObjectOf <- MCObjectOf
    RequestOf <- MCRequestOf
SYMMETRY Symmetry
INVARIANTS
    TypeOK
    
    
    StoredStaysValid
    
CHECK_DEADLOCK FALSE

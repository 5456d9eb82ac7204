CONSTANTS
    MaxName = 3
    Chunk = 2
    Caller = {a, b}
    Lister = {l}
    Scenarios <- MCScenarios
SPECIFICATION Spec
CHECK_DEADLOCK FALSE
INVARIANTS LookupsAreTrue ListingsAreTrue
PROPERTIES EveryCallReturns

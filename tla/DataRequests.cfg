CONSTANTS
    Dates = {1, 2}
    Holdings <- MCHoldings
    LayerKinds <- MCKinds
    MaxDatasets = 3
    Rules <- MCRules
    MaxChanges = 2
SPECIFICATION Spec
INVARIANTS MapIsAligned RequestsAnswered FoundIsShown HeaderMatchesData LimitHolds
CHECK_DEADLOCK TRUE

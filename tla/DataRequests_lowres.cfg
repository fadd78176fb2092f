CONSTANTS
    Dates = {1, 2}
    Holdings <- MCHoldings
    LayerKinds <- MCKinds
    MaxDatasets = 3
    Rules <- MCRules
    MaxChanges = 2
SPECIFICATION Spec
INVARIANT LimitedReadsLowRes
CHECK_DEADLOCK TRUE

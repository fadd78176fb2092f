CONSTANTS
    r1 = r1
    Readers = {r1}
    MaxRuns = 3
    MaxCrashes = 2
    MaxData = 2
SPECIFICATION Spec
INVARIANTS OutageOnlyInSwap ServedIsIndexed UnkilledRunCompletes RefreshDependable
CHECK_DEADLOCK TRUE

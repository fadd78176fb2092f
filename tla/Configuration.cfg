SPECIFICATION DrawSpec
CHECK_DEADLOCK FALSE
CONSTANTS
    NoFunction = NoFunction
    S3Allowed = FALSE
    Here <- MCHere
    Files <- MCFiles
    Objects <- MCObjects
    DefaultName <- MCDefaultName
    Importable <- MCImportable
    Dotless <- MCDotless
    Subproduct <- MCSubproduct
    Spaced <- MCSpaced
    Configs <- MCConfigs
    Database <- MCDatabase
    Rows <- MCRows
    Drawn <- MCDrawn
    Values = {0, 1, 3}
    Weight <- MCWeight
    Computed = {0, 2}
    Dates = {1, 2, 3}
INVARIANTS
    InclusionsBounded
    ReferencesResolve
    SoundLayersIndexed
    FirstRuleWins
    MaskedExactly
    LoadedSuffices

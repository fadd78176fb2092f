SPECIFICATION Spec
CONSTANTS
    SecondLen = 2
    HourLen = 4
    Now = 200
    MaxWidth = 4
    MaxHeight = 4
    Activated = {"wms", "wmts", "wcs"}
    Ramps = {"viridis"}
    ZoneOffset <- MCZoneOffset
    CRSs <- MCCRSs
    Layers <- MCLayers
    TileSets <- MCTileSets
    VersionParts <- MCVersionParts
    Requests <- MCRequests
INVARIANTS
    FamilyKept
    VersionHonoured
    FootprintKept
    AcceptedTimesFindData

SPECIFICATION Spec
CONSTANTS
    Unset = Unset
    CRSs <- MCCRSs
    Shear <- MCShear
    Layers <- MCLayers
    Formats <- MCFormats
    CRSURNs <- MCURNs
    Requests <- MCRequests
INVARIANTS
    GridCovers
    DescribedIsServed
    DatesAsAsked
    FieldsAsAsked

CONSTANTS
    t1 = t1
    t2 = t2
    root = root
    sub = sub
    stat = stat
    dyn = dyn
    bad = bad
    Threads = {t1, t2}
    Layers = {stat, dyn}
    Dynamic = {dyn}
    MaxVersion = 1
    Boxless = {}
    MaxOutages = 1
    NoLayer = NoLayer
    Preemptive = FALSE
    Folders = {root}
    Root = root
    Kids <- MCFlat
    Wcs = {dyn}
    Misconfigured = {}
    NoNativeBox = {}
SPECIFICATION CFairSpec
INVARIANTS NoLayerLost VisibleChildServable
PROPERTIES EventuallyReady
CHECK_DEADLOCK TRUE

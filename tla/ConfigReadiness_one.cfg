CONSTANTS
    t1 = t1
    t2 = t2
    root = root
    sub = sub
    stat = stat
    dyn = dyn
    bad = bad
    Threads = {t1}
    Layers = {stat, dyn, bad}
    Dynamic = {dyn}
    MaxVersion = 3
    Boxless = {1}
    MaxOutages = 1
    NoLayer = NoLayer
    Preemptive = FALSE
    Folders = {root, sub}
    Root = root
    Kids <- MCKids
    Wcs = {stat, dyn}
    Misconfigured = {bad}
    NoNativeBox = {2}
SPECIFICATION CSpec

INVARIANTS CTypeOK ReadyIsComplete VisibleChildServable ListedOnceIsDrawn
CHECK_DEADLOCK TRUE

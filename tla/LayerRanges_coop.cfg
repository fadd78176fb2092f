CONSTANTS
    t1 = t1
    t2 = t2
    dyn = dyn
    stat = stat
    Threads = {t1, t2}
    Layers = {dyn, stat}
    Dynamic = {dyn}
    MaxVersion = 3
    Boxless = {1}
    MaxOutages = 1
    NoLayer = NoLayer
    Preemptive = FALSE
SPECIFICATION Spec
SYMMETRY Symm
INVARIANTS TypeOK FreshRead VisibleIsConsistent
CHECK_DEADLOCK TRUE

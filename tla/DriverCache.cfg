CONSTANTS
    t1 = t1
    t2 = t2
    t3 = t3
    Threads = {t1, t2, t3}
    Names = {"postgres", "null"}
    Drivers = {"postgres"}
    Nobody = Nobody
SPECIFICATION Spec
INVARIANTS TypeOK OneLoadedCache
PROPERTIES OneIndexPerDriver
CHECK_DEADLOCK TRUE

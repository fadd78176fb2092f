CONSTANTS
    u1 = u1
    u2 = u2
    a = a
    b = b
    z = z
    s = s
    Updaters = {u1, u2}
    Layers = {a, b}
    Unknown = {z}
    Args <- MCArgs
    Sigs = {s}
    SigOf <- MCSigOf
    Solar = {s}
    MaxData = 2
    CountOf <- MCCountOf
    MaxChanges = 2
    MaxKills = 1
SPECIFICATION Spec
SYMMETRY Symm
INVARIANTS ServedRowLocated UniformRow RunRepairs
CHECK_DEADLOCK TRUE

SPECIFICATION Spec
CONSTANTS
    t1 = t1
    t2 = t2
    t3 = t3
    x = x
    y = y
    m = m
    None = None
    Threads = {t1, t2, t3}
    Addresses = {x, y, m}
    Slot <- MCSlot
    Accesses <- MCAccesses
    Others <- MCOthers
    MaxRows = 7
SYMMETRY Symmetry
INVARIANTS
    TypeOK
    OncePerPair
    Witnessed
    OverwriteNoted
    GraphIsPath
    SavedWhole
CHECK_DEADLOCK FALSE

SPECIFICATION Spec
CONSTANTS
    t1 = t1
    t2 = t2
    m1 = m1
    m2 = m2
    x = x
    y = y
    None = None
    Threads = {t1, t2}
    Mutexes = {m1, m2}
    Vars <- MCVars
    Heap <- WithHeap
    Guard <- MCGuard
    Instructions <- FewInstructions
    Recorded <- MCRecorded
    Features <- NestedFeatures
    MaxOps = 3
INVARIANTS TypeOK HeldMeansOwned MutexInv
PROPERTIES StampOrder UnlocksMatched TraceSpecHolds
CHECK_DEADLOCK FALSE

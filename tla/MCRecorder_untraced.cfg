SPECIFICATION FairSpec
CONSTANTS
    t1 = t1
    t2 = t2
    m1 = m1
    m2 = m2
    x = x
    y = y
    None = None
    Threads = {t1, t2}
    Mutexes = {m1}
    Vars <- MCVars
    Heap <- WithHeap
    Guard <- MCGuard
    Instructions <- AllInstructions
    Recorded <- MCRecorded
    Features <- UntracedFeatures
    MaxOps = 2
INVARIANT CallbackInv
PROPERTIES GuardedOrder AcquisitionsRecorded
CHECK_DEADLOCK FALSE

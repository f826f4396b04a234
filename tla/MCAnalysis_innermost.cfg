SPECIFICATION Spec
CONSTANTS
    t1 = t1
    t2 = t2
    t3 = t3
    m1 = m1
    m2 = m2
    x = x
    y = y
    None = None
    Threads = {t1, t2}
    Mutexes = {m1, m2}
    Vars = {x, y}
    Addresses = {m1, m2, x, y, None}
    Ipcs <- MCIpcs
    Stamps = {0}
    Windowed = TRUE
    Guard <- MCGuard
    Nesting = TRUE
    Untraced = FALSE
    Rows <- TwoLocks
    KnownIssues <- NoKnownIssues
INVARIANT NoFalseMissingLock
CHECK_DEADLOCK FALSE

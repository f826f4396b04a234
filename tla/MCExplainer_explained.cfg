SPECIFICATION ExplainerSpec
CONSTANTS
    t1 = t1
    t2 = t2
    m1 = m1
    x = x
    y = y
    None = None
    Threads = {t1, t2}
    Mutexes = {m1}
    Vars = {x, y}
    Addresses = {m1, x, y, None}
    Ipcs <- MCIpcs
    Stamps <- MCStamps
    Windowed = FALSE
    Guard <- MCGuard
    Nesting = FALSE
    Untraced = TRUE
    MaxUnread = 1
    Rows <- MCRows
    Windows <- MCWindows
    Froms = {3}
    Skipped = {5}
    KnownIssues <- NoKnownIssues
INVARIANTS
    EveryIssueCounted
    InOrder
    ReversalWitnessed
    ExplainerTypeOK
    BeforeShown
    PathExact
    InterleavingsExact
    EdgesJoinNodes
    ExplainerNeverCrashes
    ExitsUnread
CHECK_DEADLOCK FALSE

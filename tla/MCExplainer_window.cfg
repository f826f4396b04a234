SPECIFICATION ExplainerSpec
CONSTANTS
    t1 = t1
    t2 = t2
    m1 = m1
    x = x
    y = y
    None = None
    Threads = {t1, t2}
    Mutexes = {m1}
    Vars = {x, y}
    Addresses = {m1, x, y, None}
    Ipcs <- MCIpcs
    Stamps <- MCFewStamps
    Windowed = FALSE
    Guard <- MCGuard
    Nesting = FALSE
    Untraced = FALSE
    MaxUnread = 0
    Rows <- MCBareRows
    Windows <- MCNarrow
    Froms = {3}
    Skipped = {}
    KnownIssues <- NoKnownIssues
INVARIANT IssueShown
CHECK_DEADLOCK FALSE

SPECIFICATION Spec
CONSTANTS
    t1 = t1
    t2 = t2
    None = None
    Image = Image
    Threads = {t1, t2}
    Globals <- MCGlobals
    Starts = {1, 2}
    Sizes = {1, 4, 5}
    Width = 5
    HeapEnd = 7
    MemoryEnd = 11
    MaxCalls = 3
    Untraced = {"START_MALLOCS_ADDR", "calloc", "realloc"}
    Races = {"lookup", "count", "request"}
INVARIANTS TypeOK LiveBlockIsAllocated FreedIsDeleted StartAlwaysFound FoundIsInRegion MissExplained
SYMMETRY Symmetry
CHECK_DEADLOCK FALSE
